---- MODULE Spec2Model ----
(***************************************************************************)
(* Model of the insights-ros-ingress upload pipeline: archive extraction   *)
(* into a request-scoped directory, manifest resolution, ROS file          *)
(* selection, per-file upload to object storage and event publication.     *)
(***************************************************************************)
EXTENDS Integers, Sequences, FiniteSets, TLC

(***************************************************************************)
(* Strings and paths (Go: strings.HasPrefix, path/filepath on Unix).       *)
(***************************************************************************)

\* strings.HasPrefix(s, prefix): byte-wise prefix test
HasPrefix(s, prefix) ==
    /\ Len(prefix) <= Len(s)
    /\ SubSeq(s, 1, Len(prefix)) = prefix

\* index of the last "/" of s, 0 when there is none
RECURSIVE LastSlash(_, _)
LastSlash(s, i) ==
    IF i = 0 THEN 0
    ELSE IF SubSeq(s, i, i) = "/" THEN i
    ELSE LastSlash(s, i - 1)

\* the "/"-separated elements of s, empty elements included
RECURSIVE SplitPath(_)
SplitPath(s) ==
    LET SplitAt(i) ==
            IF i = 0 THEN <<s>>
            ELSE Append(SplitPath(SubSeq(s, 1, i - 1)), SubSeq(s, i + 1, Len(s)))
    IN  SplitAt(LastSlash(s, Len(s)))

\* the lexical processing of filepath.Clean: drop "" and ".", let ".." remove
\* the element before it (at the root it is dropped, in a relative path kept)
RECURSIVE CleanElems(_, _, _)
CleanElems(elems, rooted, acc) ==
    IF elems = <<>> THEN acc
    ELSE LET e == Head(elems)
             rest == Tail(elems)
         IN  IF e = "" \/ e = "." THEN CleanElems(rest, rooted, acc)
             ELSE IF e = ".."
                  THEN IF acc /= <<>> /\ acc[Len(acc)] /= ".."
                       THEN CleanElems(rest, rooted, SubSeq(acc, 1, Len(acc) - 1))
                       ELSE IF rooted THEN CleanElems(rest, rooted, acc)
                       ELSE CleanElems(rest, rooted, Append(acc, ".."))
                  ELSE CleanElems(rest, rooted, Append(acc, e))

RECURSIVE JoinElems(_)
JoinElems(elems) ==
    IF elems = <<>> THEN ""
    ELSE IF Len(elems) = 1 THEN elems[1]
    ELSE elems[1] \o "/" \o JoinElems(Tail(elems))

\* filepath.Clean
Clean(p) ==
    LET rooted == HasPrefix(p, "/")
        Cleaned(elems) ==
            IF rooted THEN "/" \o JoinElems(elems)
            ELSE IF elems = <<>> THEN "." ELSE JoinElems(elems)
    IN  Cleaned(CleanElems(SplitPath(p), rooted, <<>>))

NonEmpty(e) == e /= ""

\* filepath.Join(elems...): empty elements are ignored, the rest is joined with
\* "/" and Cleaned; "" when every element is empty
JoinAll(elems) ==
    LET Joined(nonEmpty) ==
            IF nonEmpty = <<>> THEN "" ELSE Clean(JoinElems(nonEmpty))
    IN  Joined(SelectSeq(elems, NonEmpty))

Join(a, b) == JoinAll(<<a, b>>)

RECURSIVE StripTrailingSlashes(_)
StripTrailingSlashes(p) ==
    IF Len(p) > 0 /\ SubSeq(p, Len(p), Len(p)) = "/"
    THEN StripTrailingSlashes(SubSeq(p, 1, Len(p) - 1))
    ELSE p

\* filepath.Base
Base(p) ==
    LET LastElem(b) == IF b = "" THEN "/" ELSE b
        Stripped(q) == LastElem(SubSeq(q, LastSlash(q, Len(q)) + 1, Len(q)))
    IN  IF p = "" THEN "." ELSE Stripped(StripTrailingSlashes(p))

\* filepath.Dir
Dir(p) == Clean(SubSeq(p, 1, LastSlash(p, Len(p))))

(***************************************************************************)
(* The file system under the extractor: the set of directories and the     *)
(* regular files with their contents (package os).                         *)
(***************************************************************************)

\* p and every directory above it
RECURSIVE AncestorsOrSelf(_)
AncestorsOrSelf(p) ==
    IF p = "/" \/ p = "." THEN {p} ELSE {p} \cup AncestorsOrSelf(Dir(p))

\* os.Stat(p) succeeds
Exists(fs, p) == p \in fs.dirs \/ p \in DOMAIN fs.files

\* os.MkdirAll: fails when p or a directory above it is a regular file
MkdirAll(fs, p) ==
    LET Make(dirs) ==
            IF dirs \cap DOMAIN fs.files /= {}
            THEN [ok |-> FALSE, fs |-> fs]
            ELSE [ok |-> TRUE, fs |-> [fs EXCEPT !.dirs = @ \cup dirs]]
    IN  Make(AncestorsOrSelf(p))

\* os.OpenFile(p, O_CREATE|O_TRUNC|O_WRONLY) followed by io.Copy and Close:
\* fails on a directory, creates or overwrites a regular file
WriteFile(fs, p, content) ==
    IF p \in fs.dirs \/ Dir(p) \notin fs.dirs
    THEN [ok |-> FALSE, fs |-> fs]
    ELSE [ok |-> TRUE, fs |-> [fs EXCEPT !.files = (p :> content) @@ @]]

\* p is dir or lies below it
Under(p, dir) == p = dir \/ HasPrefix(p, dir \o "/")

\* os.RemoveAll(dir): dir and everything below it is gone
RemoveAll(fs, dir) ==
    [dirs  |-> {p \in fs.dirs : ~Under(p, dir)},
     files |-> [p \in {q \in DOMAIN fs.files : ~Under(q, dir)} |-> fs.files[p]]]

(***************************************************************************)
(* PayloadExtractor                                                        *)
(***************************************************************************)

\* upload.tempDir (UPLOAD_TEMP_DIR default)
TempDir == "/tmp"

\* what json.Unmarshal leaves in a Manifest that it could not fill
NoManifest ==
    [json |-> FALSE, uuid |-> "", cluster_id |-> "", cluster_alias |-> "",
     date |-> "", resource_optimization_files |-> <<>>, operator_version |-> ""]

\* the nil *ExtractedPayload
NoPayload ==
    [Manifest |-> NoManifest, ROSFiles |-> <<>>, TempDir |-> "", RequestID |-> ""]

\* ExtractEntry writing an entry of any type but a directory as a file
ExtractEntryAnyType(st, h, destDir) ==
    LET Copied(filePath, w) ==
            IF ~w.ok
            THEN [st EXCEPT !.fs = w.fs, !.err = "failed to create file " \o filePath]
            ELSE [st EXCEPT !.fs = w.fs, !.extractedFiles = Append(@, h.name)]
        CreateFile(filePath, m) ==
            IF ~m.ok
            THEN [st EXCEPT !.err = "failed to create parent directory for " \o filePath]
            ELSE Copied(filePath, WriteFile(m.fs, filePath, h.content))
        CreateDir(filePath, m) ==
            IF m.ok THEN [st EXCEPT !.fs = m.fs]
            ELSE [st EXCEPT !.err = "failed to create directory " \o filePath]
        Entry(filePath) ==
            IF h.typeflag = "corrupt" THEN [st EXCEPT !.err = "failed to read tar header"]
            ELSE IF ~HasPrefix(filePath, destDir) THEN st
            ELSE IF h.typeflag = "dir" THEN CreateDir(filePath, MkdirAll(st.fs, filePath))
            ELSE CreateFile(filePath, MkdirAll(st.fs, Dir(filePath)))
    IN  Entry(Join(destDir, h.name))

\* one iteration of the loop of extractTarGz on the tar header h;
\* st = [fs, extractedFiles, err]
ExtractEntry(st, h, destDir) ==
    LET Copied(filePath, w) ==
            IF ~w.ok
            THEN [st EXCEPT !.fs = w.fs, !.err = "failed to create file " \o filePath]
            ELSE [st EXCEPT !.fs = w.fs, !.extractedFiles = Append(@, h.name)]
        CreateFile(filePath, m) ==
            IF ~m.ok
            THEN [st EXCEPT !.err = "failed to create parent directory for " \o filePath]
            ELSE Copied(filePath, WriteFile(m.fs, filePath, h.content))
        CreateDir(filePath, m) ==
            IF m.ok THEN [st EXCEPT !.fs = m.fs]
            ELSE [st EXCEPT !.err = "failed to create directory " \o filePath]
        Entry(filePath) ==
            IF h.typeflag = "corrupt" THEN [st EXCEPT !.err = "failed to read tar header"]
            ELSE IF ~HasPrefix(filePath, destDir) THEN st
            ELSE IF h.typeflag = "dir" THEN CreateDir(filePath, MkdirAll(st.fs, filePath))
            ELSE IF h.typeflag = "reg"
            THEN CreateFile(filePath, MkdirAll(st.fs, Dir(filePath)))
            ELSE st
    IN  Entry(Join(destDir, h.name))

RECURSIVE ExtractEntries(_, _, _)
ExtractEntries(st, entries, destDir) ==
    IF entries = <<>> \/ st.err /= "" THEN st
    ELSE ExtractEntries(ExtractEntry(st, Head(entries), destDir), Tail(entries), destDir)

\* extractTarGz failing on an archive with an entry that is neither a regular
\* file nor a directory
extractTarGzStrict(fs, data, destDir) ==
    LET Read(st) == IF st.err /= "" THEN [st EXCEPT !.extractedFiles = <<>>] ELSE st
    IN  IF \/ ~data.gzip
           \/ \E i \in 1..Len(data.entries) : data.entries[i].typeflag \notin {"reg", "dir"}
        THEN [fs |-> fs, extractedFiles |-> <<>>, err |-> "failed to create gzip reader"]
        ELSE Read(ExtractEntries([fs |-> fs, extractedFiles |-> <<>>, err |-> ""],
                                 data.entries, destDir))

\* extractTarGz: [fs, extractedFiles, err]
extractTarGz(fs, data, destDir) ==
    LET Read(st) == IF st.err /= "" THEN [st EXCEPT !.extractedFiles = <<>>] ELSE st
    IN  IF ~data.gzip
        THEN [fs |-> fs, extractedFiles |-> <<>>, err |-> "failed to create gzip reader"]
        ELSE Read(ExtractEntries([fs |-> fs, extractedFiles |-> <<>>, err |-> ""],
                                 data.entries, destDir))

\* FirstManifest taking any entry whose base name contains manifest.json
RECURSIVE FirstManifestBySubstring(_)
FirstManifestBySubstring(extractedFiles) ==
    IF extractedFiles = <<>> THEN ""
    ELSE IF \E i \in 1..Len(Base(Head(extractedFiles))) :
               HasPrefix(SubSeq(Base(Head(extractedFiles)), i,
                                Len(Base(Head(extractedFiles)))), "manifest.json")
    THEN Head(extractedFiles)
    ELSE FirstManifestBySubstring(Tail(extractedFiles))

\* the first element of extractedFiles whose base name is manifest.json, or ""
RECURSIVE FirstManifest(_)
FirstManifest(extractedFiles) ==
    IF extractedFiles = <<>> THEN ""
    ELSE IF Base(Head(extractedFiles)) = "manifest.json" THEN Head(extractedFiles)
    ELSE FirstManifest(Tail(extractedFiles))

\* findAndParseManifest without the check of cluster_id
findAndParseManifestNoClusterCheck(fs, extractedFiles, extractDir) ==
    LET Failed(doc, err) == [manifest |-> NoManifest, parsed |-> doc, err |-> err]
        Validate(manifest) ==
            IF ~manifest.json THEN Failed(NoManifest, "failed to parse manifest JSON")
            ELSE IF manifest.uuid = "" THEN Failed(manifest, "manifest UUID is missing")
            ELSE [manifest |-> manifest, parsed |-> manifest, err |-> ""]
        ReadFile(manifestPath) ==
            IF manifestPath \notin DOMAIN fs.files
            THEN Failed(NoManifest, "failed to read manifest file")
            ELSE Validate(fs.files[manifestPath])
        Found(file) ==
            IF file = "" THEN Failed(NoManifest, "manifest.json not found in payload")
            ELSE ReadFile(Join(extractDir, file))
    IN  Found(FirstManifest(extractedFiles))

\* findAndParseManifest: [manifest, err], with the document json.Unmarshal read
findAndParseManifest(fs, extractedFiles, extractDir) ==
    LET Failed(doc, err) == [manifest |-> NoManifest, parsed |-> doc, err |-> err]
        Validate(manifest) ==
            IF ~manifest.json THEN Failed(NoManifest, "failed to parse manifest JSON")
            ELSE IF manifest.uuid = "" THEN Failed(manifest, "manifest UUID is missing")
            ELSE IF manifest.cluster_id = ""
            THEN Failed(manifest, "manifest cluster_id is missing")
            ELSE [manifest |-> manifest, parsed |-> manifest, err |-> ""]
        ReadFile(manifestPath) ==
            IF manifestPath \notin DOMAIN fs.files
            THEN Failed(NoManifest, "failed to read manifest file")
            ELSE Validate(fs.files[manifestPath])
        Found(file) ==
            IF file = "" THEN Failed(NoManifest, "manifest.json not found in payload")
            ELSE ReadFile(Join(extractDir, file))
    IN  Found(FirstManifest(extractedFiles))

\* extractedFileSet keyed by the entry name instead of its base name
RECURSIVE ExtractedFileSetByName(_)
ExtractedFileSetByName(extractedFiles) ==
    IF extractedFiles = <<>> THEN <<>>
    ELSE LET n == Len(extractedFiles)
         IN  (extractedFiles[n] :> extractedFiles[n])
                 @@ ExtractedFileSetByName(SubSeq(extractedFiles, 1, n - 1))

\* extractedFileSet of identifyROSFiles: base name -> entry name, later entries
\* replacing earlier ones of the same base name
RECURSIVE ExtractedFileSet(_)
ExtractedFileSet(extractedFiles) ==
    IF extractedFiles = <<>> THEN <<>>
    ELSE LET n == Len(extractedFiles)
             file == extractedFiles[n]
         IN  (Base(file) :> file) @@ ExtractedFileSet(SubSeq(extractedFiles, 1, n - 1))

\* the loop of identifyROSFiles over manifest.ResourceOptimizationFiles
RECURSIVE SelectROSFiles(_, _, _, _, _)
SelectROSFiles(fs, names, fileSet, extractDir, rosFiles) ==
    LET Stat(rosFileName, fullPath) ==
            IF Exists(fs, fullPath)
            THEN SelectROSFiles(fs, Tail(names), fileSet, extractDir,
                                (rosFileName :> fullPath) @@ rosFiles)
            ELSE SelectROSFiles(fs, Tail(names), fileSet, extractDir, rosFiles)
        Lookup(rosFileName) ==
            IF rosFileName \in DOMAIN fileSet
            THEN Stat(rosFileName, Join(extractDir, fileSet[rosFileName]))
            ELSE SelectROSFiles(fs, Tail(names), fileSet, extractDir, rosFiles)
    IN  IF names = <<>> THEN rosFiles ELSE Lookup(Head(names))

\* identifyROSFiles falling back on every extracted file when the manifest
\* selects none
identifyROSFilesOrAll(fs, manifest, extractedFiles, extractDir) ==
    LET Found(fileSet, rosFiles) ==
            IF DOMAIN rosFiles = {}
            THEN [rosFiles |-> [b \in DOMAIN fileSet |-> Join(extractDir, fileSet[b])],
                  err |-> ""]
            ELSE [rosFiles |-> rosFiles, err |-> ""]
        Select(fileSet) ==
            Found(fileSet, SelectROSFiles(fs, manifest.resource_optimization_files,
                                          fileSet, extractDir, <<>>))
    IN  Select(ExtractedFileSet(extractedFiles))

\* identifyROSFiles: [rosFiles, err]
identifyROSFiles(fs, manifest, extractedFiles, extractDir) ==
    LET Found(rosFiles) ==
            IF DOMAIN rosFiles = {}
            THEN [rosFiles |-> <<>>, err |-> "no ROS files found in payload"]
            ELSE [rosFiles |-> rosFiles, err |-> ""]
    IN  IF Len(manifest.resource_optimization_files) = 0
        THEN [rosFiles |-> <<>>, err |-> "no ROS files specified in manifest"]
        ELSE Found(SelectROSFiles(fs, manifest.resource_optimization_files,
                                  ExtractedFileSet(extractedFiles), extractDir, <<>>))

\* ExtractPayload: [fs, payload, err], with its locals extractedFiles and the
\* parsed manifest; every error return after the directory was created goes
\* through pe.cleanup(extractDir)
ExtractPayload(fs, payloadData, requestID) ==
    LET Failed(fs1, extractedFiles, parsed, err) ==
            [fs |-> fs1, payload |-> NoPayload, extractedFiles |-> extractedFiles,
             parsed |-> parsed, err |-> err]
        Identified(extractDir, ex, mf, ros) ==
            IF ros.err /= ""
            THEN Failed(RemoveAll(ex.fs, extractDir), ex.extractedFiles, mf.parsed,
                        "failed to identify ROS files: " \o ros.err)
            ELSE [fs |-> ex.fs,
                  payload |-> [Manifest |-> mf.manifest, ROSFiles |-> ros.rosFiles,
                               TempDir |-> extractDir, RequestID |-> requestID],
                  extractedFiles |-> ex.extractedFiles, parsed |-> mf.parsed,
                  err |-> ""]
        Parsed(extractDir, ex, mf) ==
            IF mf.err /= ""
            THEN Failed(RemoveAll(ex.fs, extractDir), ex.extractedFiles, mf.parsed,
                        "failed to parse manifest: " \o mf.err)
            ELSE Identified(extractDir, ex, mf,
                            identifyROSFiles(ex.fs, mf.manifest, ex.extractedFiles,
                                             extractDir))
        Extracted(extractDir, ex) ==
            IF ex.err /= ""
            THEN Failed(RemoveAll(ex.fs, extractDir), <<>>, NoManifest,
                        "failed to extract tar.gz: " \o ex.err)
            ELSE Parsed(extractDir, ex,
                        findAndParseManifest(ex.fs, ex.extractedFiles, extractDir))
        Created(extractDir, mk) ==
            IF ~mk.ok
            THEN Failed(fs, <<>>, NoManifest, "failed to create extraction directory")
            ELSE Extracted(extractDir, extractTarGz(mk.fs, payloadData, extractDir))
        In(extractDir) == Created(extractDir, MkdirAll(fs, extractDir))
    IN  In(Join(TempDir, requestID))

\* Cleanup that removes the whole temporary area
CleanupTempDir(fs, ep) == RemoveAll(fs, TempDir)

\* Cleanup that leaves the directory
CleanupKeepingDir(fs, ep) == fs

\* ExtractedPayload.Cleanup
Cleanup(fs, ep) == IF ep.TempDir /= "" THEN RemoveAll(fs, ep.TempDir) ELSE fs

(***************************************************************************)
(* Storage client and handler helpers                                      *)
(***************************************************************************)

\* storage.pathPrefix (STORAGE_PATH_PREFIX default)
PathPrefix == "ros"

\* upload.maxUploadSize (UPLOAD_MAX_SIZE default, 100MB)
MaxUploadSize == 104857600

\* upload.allowedTypes (UPLOAD_ALLOWED_TYPES default)
AllowedTypes == {"application/vnd.redhat.hccm.upload"}

\* Client.GenerateUploadPath
GenerateUploadPath(schema, sourceID, date, filename) ==
    JoinAll(<<schema, "source=" \o sourceID, "date=" \o date, filename>>)

\* the object stored under req.Key itself
StorageKeyUnprefixed(key) == key

\* the object key Client.Upload stores req.Key under
StorageKey(key) == IF PathPrefix /= "" THEN Join(PathPrefix, key) ELSE key

Digit == <<"0", "1", "2", "3", "4", "5", "6", "7", "8", "9">>

\* n in decimal, zero-padded to width w
RECURSIVE Decimal(_, _)
Decimal(n, w) ==
    IF w = 0 THEN "" ELSE Decimal(n \div 10, w - 1) \o Digit[(n % 10) + 1]

\* Manifest.Date.Format("2006-01-02")
FormatDate(date) ==
    Decimal(date.year, 4) \o "-" \o Decimal(date.month, 2) \o "-" \o Decimal(date.day, 2)

\* the nil *identity.Identity
NoIdentity == [nil |-> TRUE, AccountNumber |-> "", OrgID |-> ""]

\* a request context the auth middleware did not fill
NoAuthContext == [present |-> FALSE, token |-> "", groups |-> <<>>, extra |-> <<>>]

\* strings.TrimPrefix
TrimPrefix(s, prefix) ==
    IF HasPrefix(s, prefix) THEN SubSeq(s, Len(prefix) + 1, Len(s)) ELSE s

\* the loop of extractOrgIDFromUser over user.Groups; "" when no group gives an id
RECURSIVE OrgIDFromGroups(_)
OrgIDFromGroups(groups) ==
    IF groups = <<>> THEN ""
    ELSE IF HasPrefix(Head(groups), "org:") /\ TrimPrefix(Head(groups), "org:") /= ""
    THEN TrimPrefix(Head(groups), "org:")
    ELSE OrgIDFromGroups(Tail(groups))

\* user.Extra[key] exists and is not empty
HasExtra(user, key) == key \in DOMAIN user.extra /\ Len(user.extra[key]) > 0

\* extractOrgIDFromUser reading the extra field before the groups
extractOrgIDExtraFirst(user) ==
    IF HasExtra(user, "org_id") THEN user.extra["org_id"][1]
    ELSE IF OrgIDFromGroups(user.groups) /= "" THEN OrgIDFromGroups(user.groups)
    ELSE "1"

\* Handler.extractOrgIDFromUser
extractOrgIDFromUser(user) ==
    IF OrgIDFromGroups(user.groups) /= "" THEN OrgIDFromGroups(user.groups)
    ELSE IF HasExtra(user, "org_id") THEN user.extra["org_id"][1]
    ELSE "1"

\* the loop of extractAccountNumberFromUser over user.Groups
RECURSIVE AccountFromGroups(_)
AccountFromGroups(groups) ==
    IF groups = <<>> THEN [found |-> FALSE, account |-> ""]
    ELSE IF HasPrefix(Head(groups), "account:")
    THEN [found |-> TRUE, account |-> TrimPrefix(Head(groups), "account:")]
    ELSE AccountFromGroups(Tail(groups))

\* extractAccountNumberFromUser reading the groups before the extra fields
extractAccountNumberGroupsFirst(user) ==
    IF AccountFromGroups(user.groups).found THEN AccountFromGroups(user.groups).account
    ELSE IF HasExtra(user, "account_number") THEN user.extra["account_number"][1]
    ELSE IF HasExtra(user, "customer_id") THEN user.extra["customer_id"][1]
    ELSE IF HasExtra(user, "client_id") THEN user.extra["client_id"][1]
    ELSE "1"

\* Handler.extractAccountNumberFromUser
extractAccountNumberFromUser(user) ==
    IF HasExtra(user, "account_number") THEN user.extra["account_number"][1]
    ELSE IF HasExtra(user, "customer_id") THEN user.extra["customer_id"][1]
    ELSE IF HasExtra(user, "client_id") THEN user.extra["client_id"][1]
    ELSE IF AccountFromGroups(user.groups).found THEN AccountFromGroups(user.groups).account
    ELSE "1"

\* Handler.createIdentityFromOAuth2User
createIdentityFromOAuth2User(user) ==
    [nil |-> FALSE,
     AccountNumber |-> extractAccountNumberFromUser(user),
     OrgID |-> extractOrgIDFromUser(user)]

\* Handler.extractIdentity: [identity, err]
extractIdentity(authEnabled, ctx) ==
    IF ~authEnabled THEN [identity |-> NoIdentity, err |-> FALSE]
    ELSE IF ~ctx.present THEN [identity |-> NoIdentity, err |-> TRUE]
    ELSE [identity |-> createIdentityFromOAuth2User(ctx), err |-> FALSE]

\* the schema named after the org id of any identity, empty or not
getSchemaNameOfAnyOrg(identity) ==
    IF ~identity.nil THEN "org_" \o identity.OrgID ELSE "default"

\* Handler.getSchemaName
getSchemaName(identity) ==
    IF ~identity.nil /\ identity.OrgID /= "" THEN "org_" \o identity.OrgID ELSE "default"

\* Handler.getAccountID
getAccountID(identity) == IF ~identity.nil THEN identity.AccountNumber ELSE "unknown"

\* Handler.getOrgID (identity.Internal.OrgID is set to the same org id)
getOrgID(identity) == IF ~identity.nil THEN identity.OrgID ELSE "unknown"

\* the alias of the manifest taken as it is, empty or not
getClusterAliasAsIs(manifest) == manifest.cluster_alias

\* Handler.getClusterAlias
getClusterAlias(manifest) ==
    IF manifest.cluster_alias /= "" THEN manifest.cluster_alias ELSE manifest.cluster_id

\* s contains sub at some position >= i
RECURSIVE ContainsFrom(_, _, _)
ContainsFrom(s, sub, i) ==
    IF i + Len(sub) - 1 > Len(s) THEN FALSE
    ELSE IF SubSeq(s, i, i + Len(sub) - 1) = sub THEN TRUE
    ELSE ContainsFrom(s, sub, i + 1)

Contains(s, sub) == ContainsFrom(s, sub, 1)

\* the characters of the class [a-z0-9-]
NameChars ==
    {"a", "b", "c", "d", "e", "f", "g", "h", "i", "j", "k", "l", "m", "n", "o", "p",
     "q", "r", "s", "t", "u", "v", "w", "x", "y", "z", "0", "1", "2", "3", "4", "5",
     "6", "7", "8", "9", "-"}

\* the end of the longest run of NameChars of s that starts at i (i - 1 if none)
RECURSIVE RunEnd(_, _)
RunEnd(s, i) ==
    IF i <= Len(s) /\ SubSeq(s, i, i) \in NameChars THEN RunEnd(s, i + 1) ELSE i - 1

\* application/vnd\.redhat\.([a-z0-9-]+)\.([a-z0-9-]+).* matches s at some
\* position >= i (regexp.MatchString is not anchored)
RECURSIVE VndMatchFrom(_, _)
VndMatchFrom(s, i) ==
    LET lit == "application/vnd.redhat."
        a == i + Len(lit)
        e == RunEnd(s, a)
    IN  IF i + Len(lit) - 1 > Len(s) THEN FALSE
        ELSE IF /\ SubSeq(s, i, a - 1) = lit
                /\ e >= a
                /\ e + 1 <= Len(s) /\ SubSeq(s, e + 1, e + 1) = "."
                /\ RunEnd(s, e + 2) >= e + 2
        THEN TRUE
        ELSE VndMatchFrom(s, i + 1)

\* Handler.isValidContentType
isValidContentType(contentType) ==
    \/ contentType \in AllowedTypes
    \/ Contains(contentType, "application/x-gzip")
    \/ Contains(contentType, "application/gzip")
    \/ VndMatchFrom(contentType, 1)

(***************************************************************************)
(* Inputs: requests, archives, contexts                                    *)
(***************************************************************************)

\* the identifiers generateRequestID (uuid.New) hands out, one per request
RequestIDs == {"r1", "r2"}

\* the largest number of tar headers of an archive
MaxEntries == 3

\* file contents: a JSON manifest document, or bytes that are no JSON document
ManifestDocAs(uuid, cluster, alias, ros) ==
    [json |-> TRUE, uuid |-> uuid, cluster_id |-> cluster, cluster_alias |-> alias,
     date |-> [year |-> 2024, month |-> 1, day |-> 5],
     resource_optimization_files |-> ros, operator_version |-> "4.1"]

\* a manifest document without the optional cluster_alias
ManifestDoc(uuid, cluster, ros) == ManifestDocAs(uuid, cluster, "", ros)

\* a cluster_id that is no single path element: it climbs out of its own
\* source= element and names the partition of schema default
ClimbingClusterID == "c/../../default/source=c1"

CsvData == [NoManifest EXCEPT !.operator_version = "csv"]

Header(name, typeflag, content) ==
    [name |-> name, typeflag |-> typeflag, content |-> content]

\* the tar headers the archives of request r are built from; "corrupt" is a
\* header tarReader.Next cannot read
Entries(r) ==
    { Header("manifest.json", "reg", ManifestDoc("u1", "c1", <<"cost.csv", "usage.csv">>)),
      Header("manifest.json", "reg", ManifestDoc("u1", "c1", <<>>)),
      Header("manifest.json", "reg", ManifestDoc("", "c1", <<"cost.csv">>)),
      Header("manifest.json", "reg", ManifestDoc("u1", "", <<"cost.csv">>)),
      Header("manifest.json", "reg", CsvData),
      Header("manifest.json", "reg",
             ManifestDocAs("u3", ClimbingClusterID, "prod", <<"cost.csv", "cost.csv">>)),
      Header("my-manifest.json.bak", "reg", ManifestDoc("u2", "c2", <<"cost.csv">>)),
      Header("cost.csv", "reg", CsvData),
      Header("data/usage.csv", "reg", CsvData),
      Header("usage.csv", "symlink", CsvData),
      Header("data", "dir", CsvData),
      Header("data", "reg", CsvData),
      Header("../../etc/passwd", "reg", CsvData),
      Header("/etc/cron.d/job", "reg", CsvData),
      Header("../" \o r \o "-old/cost.csv", "reg", CsvData),
      Header("", "corrupt", CsvData) }

SeqsUpTo(S, n) == UNION { [1..k -> S] : k \in 0..n }

\* the uploaded files: a stream gzip.NewReader rejects, or a gzip stream with
\* a sequence of tar headers
Archives(r) ==
    { [gzip |-> FALSE, entries |-> <<>>] }
        \cup { [gzip |-> TRUE, entries |-> es] : es \in SeqsUpTo(Entries(r), MaxEntries) }

\* no file read from the request
NoArchive == [gzip |-> FALSE, entries |-> <<"none">>]

\* the request contexts: left alone, or filled by the auth middleware with
\* the validated token and the user of the TokenReview
Contexts ==
    { NoAuthContext,
      [present |-> TRUE, token |-> "tokA", groups |-> <<"org:7">>, extra |-> <<>>],
      [present |-> TRUE, token |-> "tokB", groups |-> <<>>,
       extra |-> ("org_id" :> <<"">>)] }

\* the parts of the HTTP request HandleUpload looks at before the pipeline
Requests ==
    [ method : {"POST", "GET"},
      test : BOOLEAN,
      multipartOK : BOOLEAN,
      hasFile : BOOLEAN,
      contentType : {"application/vnd.redhat.hccm.upload", "application/gzip", "text/plain"},
      size : {1024, MaxUploadSize + 1} ]

(***************************************************************************)
(* State                                                                   *)
(***************************************************************************)

VARIABLES
    fs,               \* the file system of the host
    objects,          \* the bucket: object key -> stored object
    rosTopic,         \* ROS event messages handed to the producer, in order
    validationTopic,  \* validation messages handed to the producer, in order
    authEnabled,      \* config.Auth.Enabled
    req,              \* per request: where HandleUpload stands, and its locals
    storage,          \* the bucket of the store, and where NewMinIOClient
                      \* stands in each process
    middleware        \* what main wrapped HandleUpload in: the handler
                      \* auth.KubernetesAuthMiddleware returned

vars == <<fs, objects, rosTopic, validationTopic, authEnabled, req, storage,
         middleware>>

\* the processes that build a storage client against the same store
Clients == {"p1", "p2"}

\* a process before NewMinIOClient: exists is its local of that name
NewClient == [pc |-> "start", exists |-> FALSE, err |-> ""]

\* the store with its bucket, and every process past NewMinIOClient
Serving ==
    [bucket |-> TRUE,
     client |-> [c \in Clients |-> [pc |-> "ready", exists |-> TRUE, err |-> ""]]]

InitFS == [dirs |-> {"/", TempDir}, files |-> <<>>]

\* a request the auth middleware has not seen: the Authorization header it
\* read, the tokens it sent to TokenReviews().Create, the status of its
\* http.Error, whether it called next.ServeHTTP, the context it passed on,
\* and what the API server answers to a review of the token of the request
NoAuth == [header |-> "", reviews |-> <<>>, status |-> 0, next |-> FALSE,
           ctx |-> NoAuthContext, answer |-> ""]

IdleRequest ==
    [pc |-> "idle", file |-> NoArchive, token |-> [present |-> FALSE, value |-> ""],
     identity |-> NoIdentity, payload |-> NoPayload, extractedFiles |-> <<>>,
     parsed |-> NoManifest, pending |-> {},
     uploadedFiles |-> <<>>, objectKeys |-> <<>>, uploadCalls |-> <<>>,
     extractCalls |-> 0, rosCalls |-> 0, validationCalls |-> 0,
     rosAcked |-> FALSE, delivery |-> "", validationErr |-> "", err |-> "", status |-> 0,
     ctx |-> [done |-> FALSE, during |-> "", read |-> 0],
     auth |-> NoAuth, sentOnClosed |-> {}]

Init ==
    /\ fs = InitFS
    /\ objects = <<>>
    /\ rosTopic = <<>>
    /\ validationTopic = <<>>
    /\ authEnabled \in BOOLEAN
    /\ req = [r \in RequestIDs |-> IdleRequest]
    /\ storage = Serving
    /\ middleware = "token_review"

(***************************************************************************)
(* Handler.HandleUpload and Handler.processUpload                          *)
(***************************************************************************)

\* IngressStatus without the check of the content type
IngressStatusAnyType(in, ctx, enabled) ==
    IF in.method /= "POST" THEN 405
    ELSE IF in.test THEN 200
    ELSE IF ~in.multipartOK THEN 400
    ELSE IF extractIdentity(enabled, ctx).err /\ enabled THEN 401
    ELSE IF ~in.hasFile THEN 400
    ELSE IF in.size > MaxUploadSize THEN 413
    ELSE 0

\* the status of the check of HandleUpload that turns the request away before
\* processUpload, 0 when it passes them all
IngressStatus(in, ctx, enabled) ==
    IF in.method /= "POST" THEN 405
    ELSE IF in.test THEN 200
    ELSE IF ~in.multipartOK THEN 400
    ELSE IF extractIdentity(enabled, ctx).err /\ enabled THEN 401
    ELSE IF ~in.hasFile THEN 400
    ELSE IF ~isValidContentType(in.contentType) THEN 415
    ELSE IF in.size > MaxUploadSize THEN 413
    ELSE 0

\* Return with HandleUpload answering 202 whatever processUpload returned
ReturnAccepted(r, q, err) ==
    /\ fs' = Cleanup(fs, q.payload)
    /\ req' = [req EXCEPT ![r] = [q EXCEPT !.pc = "done", !.err = "", !.status = 202]]

\* Return with HandleUpload writing the success response after the error of
\* processUpload
ReturnSuccessOnError(r, q, err) ==
    /\ fs' = Cleanup(fs, q.payload)
    /\ req' = [req EXCEPT ![r] = [q EXCEPT !.pc = "done", !.err = err, !.status = 202]]

\* processUpload returns err: the deferred Cleanup runs, then HandleUpload
\* answers 500 on an error and 202 otherwise
Return(r, q, err) ==
    /\ fs' = Cleanup(fs, q.payload)
    /\ req' = [req EXCEPT ![r] = [q EXCEPT !.pc = "done", !.err = err,
                                           !.status = IF err /= "" THEN 500 ELSE 202]]

\* Handler.respondError: the status and the JSON body {"error": message}
respondError(statusCode, message) == [status |-> statusCode, error |-> message]

\* what HandleUpload answers when processUpload returned err, which it logs
ProcessUploadFailed(err) == respondError(500, "Failed to process upload")

\* the statuses with which the ingress checks of HandleUpload turn requests
\* away (respondError, handleTestRequest), over every HTTP request and context
TurnedAway(enabled) ==
    { IngressStatus(in, ctx, enabled) : in \in Requests, ctx \in Contexts } \ {0}

\* the request contexts with which a request passes the ingress checks
Admitted(enabled) ==
    { ctx \in Contexts : \E in \in Requests : IngressStatus(in, ctx, enabled) = 0 }

\* HandleUpload up to the first upload: a request one of the ingress checks
\* turns away ends with one of the statuses turnedAway; for one with a context
\* of admitted processUpload runs ExtractPayload on its file, one of the given
\* files
HandleUploadWith(r, files, turnedAway, admitted) ==
    LET Handle ==
            \/ \E statusCode \in turnedAway :
                 /\ req' = [req EXCEPT ![r].pc = "done", ![r].status = statusCode]
                 /\ UNCHANGED fs
            \/ \E file \in files :
                 \E ex \in {ExtractPayload(fs, file, r)} :
                 \E q \in {[req[r] EXCEPT !.file = file,
                                          !.extractCalls = 1,
                                          !.extractedFiles = ex.extractedFiles,
                                          !.parsed = ex.parsed]} :
                 \E ctx \in admitted :
                     IF ex.err /= ""
                     THEN /\ fs' = ex.fs
                          /\ req' = [req EXCEPT ![r] =
                                [q EXCEPT !.pc = "done", !.status = 500,
                                          !.err = "failed to extract payload: " \o ex.err]]
                     ELSE IF DOMAIN ex.payload.ROSFiles = {}
                     THEN /\ fs' = Cleanup(ex.fs, ex.payload)
                          /\ req' = [req EXCEPT ![r] =
                                [q EXCEPT !.pc = "done", !.status = 500,
                                          !.err = "no ROS files found in payload"]]
                     ELSE /\ fs' = ex.fs
                          /\ req' = [req EXCEPT ![r] =
                                [q EXCEPT !.pc = "uploading",
                                          !.token = [present |-> ctx.present,
                                                     value |-> ctx.token],
                                          !.identity =
                                              extractIdentity(authEnabled, ctx).identity,
                                          !.payload = ex.payload,
                                          !.pending = DOMAIN ex.payload.ROSFiles]]
    IN  /\ req[r].pc = "idle"
        /\ UNCHANGED <<objects, rosTopic, validationTopic, authEnabled, storage, middleware>>
        /\ Handle

\* HandleUpload of a request whose HTTP request and context are any of those
\* the service can receive
HandleUploadOf(r, files) ==
    HandleUploadWith(r, files, TurnedAway(authEnabled), Admitted(authEnabled))

HandleUpload(r) == HandleUploadOf(r, Archives(r))

\* PutObject on a bucket emptied first
PutObjectAlone(bucket, key, object) == (key :> object)

\* minio PutObject on the bucket: the object is stored under key, replacing
\* what was there
PutObject(bucket, key, object) == (key :> object) @@ bucket

\* the loop left after its first iteration
LoopEndsAtOnce(pending, fileName) == TRUE

\* the range over the ROSFiles map ends with the iteration on fileName
LoopEnds(pending, fileName) == pending = {fileName}

\* a failed Upload that is logged and the loop continued
UploadFailedContinue(r, q, fileName) ==
    /\ req' = [req EXCEPT ![r] =
          [q EXCEPT !.uploadCalls = Append(@, fileName),
                    !.pending = @ \ {fileName},
                    !.pc = IF q.pending = {fileName} THEN "publishing" ELSE "uploading"]]
    /\ UNCHANGED <<fs, objects, rosTopic, validationTopic, authEnabled, storage, middleware>>

\* a failed Upload after which the loop takes up fileName again
UploadFailedRetry(r, q, fileName) ==
    /\ req' = [req EXCEPT ![r] = [q EXCEPT !.uploadCalls = Append(@, fileName)]]
    /\ UNCHANGED <<fs, objects, rosTopic, validationTopic, authEnabled, storage, middleware>>

\* Upload returned an error for fileName: processUpload returns it
UploadFailed(r, q, fileName) ==
    /\ fs' = Cleanup(fs, q.payload)
    /\ req' = [req EXCEPT ![r] =
          [q EXCEPT !.uploadCalls = Append(@, fileName),
                    !.pc = "done", !.status = 500,
                    !.err = "failed to upload ROS file " \o fileName
                               \o ": failed to upload to MinIO"]]
    /\ UNCHANGED <<objects, rosTopic, validationTopic, authEnabled, storage, middleware>>

\* the upload result recorded with the locator appended only when a
\* presigned URL was generated
UploadedLocatorIfAny(q, fileName, presignedURL, key) ==
    [q EXCEPT !.uploadCalls = Append(@, fileName),
              !.uploadedFiles = IF presignedURL /= "" THEN Append(@, presignedURL) ELSE @,
              !.objectKeys = Append(@, key)]

\* the upload result dropped when no presigned URL was generated
UploadedUnlessNoLocator(q, fileName, presignedURL, key) ==
    IF presignedURL = ""
    THEN [q EXCEPT !.uploadCalls = Append(@, fileName)]
    ELSE [q EXCEPT !.uploadCalls = Append(@, fileName),
                   !.uploadedFiles = Append(@, presignedURL),
                   !.objectKeys = Append(@, key)]

\* the result of a successful Upload recorded by the loop: PresignedURL is
\* appended to uploadedFiles and Key to objectKeys
Uploaded(q, fileName, presignedURL, key) ==
    [q EXCEPT !.uploadCalls = Append(@, fileName),
              !.uploadedFiles = Append(@, presignedURL),
              !.objectKeys = Append(@, key)]

\* one iteration of the upload loop of processUpload, on any file the range
\* over the ROSFiles map has not visited yet
UploadFile(r) ==
    /\ req[r].pc = "uploading"
    /\ \E fileName \in req[r].pending, putOK \in BOOLEAN, presignOK \in BOOLEAN :
        LET q == req[r]
            filePath == q.payload.ROSFiles[fileName]
            schema == getSchemaName(q.identity)
            sourceID == q.payload.Manifest.cluster_id
            date == FormatDate(q.payload.Manifest.date)
            uploadKey == GenerateUploadPath(schema, sourceID, date, fileName)
            key == StorageKey(uploadKey)
            presignedURL == IF presignOK THEN "https://minio/" \o key ELSE ""
        IN  IF filePath \notin DOMAIN fs.files
            THEN /\ Return(r, q, "failed to open ROS file " \o fileName)
                 /\ UNCHANGED <<objects, rosTopic, validationTopic, authEnabled, storage, middleware>>
            ELSE IF ~putOK
            THEN UploadFailed(r, q, fileName)
            ELSE /\ objects' = PutObject(objects, key,
                                         [RequestId |-> r,
                                          ManifestId |-> q.payload.Manifest.uuid,
                                          name |-> fileName,
                                          data |-> fs.files[filePath]])
                 /\ req' = [req EXCEPT ![r] =
                       [Uploaded(q, fileName, presignedURL, key)
                           EXCEPT !.pending = @ \ {fileName},
                                 !.pc = IF LoopEnds(q.pending, fileName)
                                        THEN "publishing" ELSE "uploading"]]
                 /\ UNCHANGED <<fs, rosTopic, validationTopic, authEnabled, storage, middleware>>

\* what the wait of SendROSEvent / SendValidationMessage ends with
Deliveries == {"produce_error", "delivered", "delivery_error", "ctx_done", "timeout"}

\* one error text for whatever ended the wait
DeliveryErrorUniform(what, label, seconds, d) ==
    IF d = "produce_error" THEN "failed to produce " \o what
    ELSE IF d = "delivered" THEN ""
    ELSE label \o "message delivery failed"

\* the error the wait returns: label is "" for SendROSEvent and "validation "
\* for SendValidationMessage, seconds the length of the time.After
DeliveryError(what, label, seconds, d) ==
    IF d = "produce_error" THEN "failed to produce " \o what
    ELSE IF d = "delivery_error" THEN label \o "message delivery failed"
    ELSE IF d = "ctx_done" THEN label \o "message delivery timeout: context canceled"
    ELSE IF d = "timeout"
    THEN label \o "message delivery timeout after " \o seconds \o " seconds"
    ELSE ""

\* the ROSMessage processUpload builds for request r
ROSMessage(r, q) ==
    [request_id |-> r,
     b64_identity |-> q.token.value,
     metadata |-> [account |-> getAccountID(q.identity),
                   org_id |-> getOrgID(q.identity),
                   source_id |-> q.payload.Manifest.cluster_id,
                   provider_uuid |-> q.payload.Manifest.cluster_id,
                   cluster_uuid |-> q.payload.Manifest.cluster_id,
                   cluster_alias |-> getClusterAlias(q.payload.Manifest),
                   operator_version |-> q.payload.Manifest.operator_version],
     files |-> q.uploadedFiles,
     object_keys |-> q.objectKeys]

\* the rest of processUpload after the loop: the token lookup and SendROSEvent
SendROSEvent(r) ==
    /\ req[r].pc = "publishing"
    /\ LET q == req[r]
           rosMessage == ROSMessage(r, q)
       IN  IF ~q.token.present
           THEN /\ Return(r, q, "failed to get OAuth token from context: "
                                   \o "no OAuth token found in context")
                /\ UNCHANGED <<objects, rosTopic, validationTopic, authEnabled, storage, middleware>>
           ELSE \E d \in Deliveries :
                /\ rosTopic' = IF d = "produce_error" THEN rosTopic
                               ELSE Append(rosTopic, rosMessage)
                /\ IF d = "delivered"
                   THEN /\ req' = [req EXCEPT ![r].rosCalls = @ + 1,
                                              ![r].rosAcked = TRUE,
                                              ![r].delivery = d,
                                              ![r].pc = "validating"]
                        /\ UNCHANGED fs
                   ELSE Return(r, [q EXCEPT !.rosCalls = @ + 1, !.delivery = d],
                               "failed to send ROS event: " \o DeliveryError("ROS message", "", "30", d))
                /\ UNCHANGED <<objects, validationTopic, authEnabled, storage, middleware>>

\* processUpload after the loop up to the wait of SendROSEvent: the token
\* lookup, and Produce handing the message to the producer or failing
ProduceROSEvent(r) ==
    /\ req[r].pc = "publishing"
    /\ LET q == req[r]
       IN  IF ~q.token.present
           THEN /\ Return(r, q, "failed to get OAuth token from context: "
                                   \o "no OAuth token found in context")
                /\ UNCHANGED <<objects, rosTopic, validationTopic, authEnabled, storage, middleware>>
           ELSE \E produced \in BOOLEAN :
                /\ IF produced
                   THEN /\ rosTopic' = Append(rosTopic, ROSMessage(r, q))
                        /\ req' = [req EXCEPT ![r].rosCalls = @ + 1,
                                              ![r].pc = "awaiting"]
                        /\ UNCHANGED fs
                   ELSE /\ UNCHANGED rosTopic
                        /\ Return(r, [q EXCEPT !.rosCalls = @ + 1,
                                               !.delivery = "produce_error"],
                                  "failed to send ROS event: "
                                     \o DeliveryError("ROS message", "", "30", "produce_error"))
                /\ UNCHANGED <<objects, validationTopic, authEnabled, storage, middleware>>

\* the wait of SendROSEvent ends with error d
WaitFails(r, d) ==
    /\ Return(r, [req[r] EXCEPT !.delivery = d],
              "failed to send ROS event: " \o DeliveryError("ROS message", "", "30", d))
    /\ UNCHANGED <<objects, rosTopic, validationTopic, authEnabled, storage, middleware>>

\* case e := <-deliveryChan of the select: the delivery report of the message
\* arrives, with or without TopicPartition.Error
DeliveryReport(r) ==
    /\ req[r].pc = "awaiting"
    /\ \/ /\ req' = [req EXCEPT ![r].rosAcked = TRUE,
                                 ![r].delivery = "delivered",
                                 ![r].pc = "validating"]
          /\ UNCHANGED <<fs, objects, rosTopic, validationTopic, authEnabled, storage, middleware>>
       \/ WaitFails(r, "delivery_error")

\* case <-ctx.Done() of the select
ContextDone(r) ==
    /\ req[r].pc = "awaiting"
    /\ WaitFails(r, "ctx_done")

\* a select without the time.After case
TimeAfterNever(r) == FALSE

\* case <-time.After(30 * time.Second) of the select
TimeAfter(r) ==
    /\ req[r].pc = "awaiting"
    /\ WaitFails(r, "timeout")

\* SendValidationMessage whose error processUpload returns
SendValidationMessageFatal(r) ==
    /\ req[r].pc = "validating"
    /\ \E d \in Deliveries :
        /\ validationTopic' =
              IF d = "produce_error" THEN validationTopic
              ELSE Append(validationTopic, [request_id |-> r, validation |-> "success"])
        /\ Return(r, [req[r] EXCEPT !.validationCalls = @ + 1,
                                    !.validationErr =
                                        DeliveryError("validation message", "validation ", "10", d)],
                  DeliveryError("validation message", "validation ", "10", d))
        /\ UNCHANGED <<objects, rosTopic, authEnabled, storage, middleware>>

\* SendValidationMessage(ctx, requestID, "success"), whose error is only
\* logged, and the return of processUpload
SendValidationMessage(r) ==
    /\ req[r].pc = "validating"
    /\ \E d \in Deliveries :
        /\ validationTopic' =
              IF d = "produce_error" THEN validationTopic
              ELSE Append(validationTopic, [request_id |-> r, validation |-> "success"])
        /\ Return(r, [req[r] EXCEPT !.validationCalls = @ + 1,
                                    !.validationErr =
                                        DeliveryError("validation message", "validation ", "10", d)], "")
        /\ UNCHANGED <<objects, rosTopic, authEnabled, storage, middleware>>

\* the request the specification follows through the pipeline
Served == {"r1"}

Next ==
    \E r \in Served :
        \/ HandleUpload(r)
        \/ UploadFile(r)
        \/ SendROSEvent(r)
        \/ SendValidationMessage(r)

Spec == Init /\ [][Next]_vars

\* the pipeline with the wait of SendROSEvent in steps: Produce, then the
\* first of the delivery report, the end of the context and the timer
NextDelivery ==
    \E r \in Served :
        \/ HandleUpload(r)
        \/ UploadFile(r)
        \/ ProduceROSEvent(r)
        \/ DeliveryReport(r)
        \/ ContextDone(r)
        \/ TimeAfter(r)
        \/ SendValidationMessage(r)

\* r.Context() is cancelled while ExtractPayload runs, once read tar headers
\* have been read; ExtractPayload is not given the context
CancelDuringExtraction(r) ==
    /\ req[r].pc = "idle"
    /\ ~req[r].ctx.done
    /\ \E read \in 0..(MaxEntries - 1) :
          req' = [req EXCEPT ![r].ctx = [done |-> TRUE, during |-> "extraction",
                                        read |-> read]]
    /\ UNCHANGED <<fs, objects, rosTopic, validationTopic, authEnabled, storage, middleware>>

\* r.Context() is cancelled while the upload loop runs
CancelDuringUpload(r) ==
    /\ req[r].pc = "uploading"
    /\ ~req[r].ctx.done
    /\ req' = [req EXCEPT ![r].ctx = [done |-> TRUE, during |-> "upload",
                                      read |-> Len(req[r].file.entries)]]
    /\ UNCHANGED <<fs, objects, rosTopic, validationTopic, authEnabled, storage, middleware>>

\* an iteration of the upload loop under the context: PutObject fails once
\* the context it is given is cancelled
UploadFileUnderContext(r) ==
    /\ UploadFile(r)
    /\ req[r].ctx.done => req'[r].pc = "done"

\* the pipeline under a request context that may be cancelled while the
\* archive is extracted or while the files are uploaded
NextCancel ==
    \E r \in Served :
        \/ CancelDuringExtraction(r)
        \/ HandleUpload(r)
        \/ CancelDuringUpload(r)
        \/ UploadFileUnderContext(r)
        \/ SendROSEvent(r)
        \/ SendValidationMessage(r)

SpecCancel == Init /\ [][NextCancel]_vars

\* the other request identifier
OtherRequest(r) == CHOOSE o \in RequestIDs : o /= r

\* the bytes of a file an archive aims at the directory of the other request
ForeignData == [NoManifest EXCEPT !.operator_version = "foreign"]

\* the archives of request r while requests run concurrently: no gzip stream,
\* a payload of one file, and a payload with entries named into the
\* extraction directory of the other request
ConcurrentArchives(r) ==
    LET Manifest == Header("manifest.json", "reg",
                           ManifestDoc("u1", "c1", <<"cost.csv", "usage.csv">>))
        Cost == Header("cost.csv", "reg", CsvData)
        Into(name) == Header("../" \o OtherRequest(r) \o name, "reg", ForeignData)
    IN  { [gzip |-> FALSE, entries |-> <<>>],
          [gzip |-> TRUE, entries |-> <<Manifest, Cost>>],
          [gzip |-> TRUE, entries |-> <<Into("/manifest.json"), Manifest, Into(""),
                                        Into("/cost.csv"), Cost>>] }

\* the requests served concurrently, each with its own generated identifier
NextConcurrent ==
    \E r \in RequestIDs :
        \/ HandleUploadOf(r, ConcurrentArchives(r))
        \/ UploadFile(r)
        \/ SendROSEvent(r)
        \/ SendValidationMessage(r)

SpecConcurrent == Init /\ [][NextConcurrent]_vars

\* the processes start against a store with or without the bucket
InitBucket ==
    /\ fs = InitFS
    /\ objects = <<>>
    /\ rosTopic = <<>>
    /\ validationTopic = <<>>
    /\ authEnabled \in BOOLEAN
    /\ req = [r \in RequestIDs |-> IdleRequest]
    /\ storage \in [bucket : BOOLEAN, client : {[c \in Clients |-> NewClient]}]
    /\ middleware = "token_review"

\* NewMinIOClient up to its test of exists: minioClient.BucketExists
BucketExists(c) ==
    /\ storage.client[c].pc = "start"
    /\ storage' = [storage EXCEPT !.client[c].exists = storage.bucket,
                                  !.client[c].pc = IF storage.bucket THEN "ready"
                                                   ELSE "make"]
    /\ UNCHANGED <<fs, objects, rosTopic, validationTopic, authEnabled, req, middleware>>

\* what the store answers to MakeBucket for a bucket that exists: the error
\* BucketAlreadyOwnedByYou, or success where the store takes the repeated
\* request of the owner
MakeExistingBucket == {"BucketAlreadyOwnedByYou", ""}

\* the rest of NewMinIOClient when exists is false: minioClient.MakeBucket,
\* whose error is returned
MakeBucket(c) ==
    /\ storage.client[c].pc = "make"
    /\ \E errResp \in (IF storage.bucket THEN MakeExistingBucket ELSE {""}) :
          storage' = [storage EXCEPT
                         !.bucket = TRUE,
                         !.client[c].pc = IF errResp = "" THEN "ready" ELSE "failed",
                         !.client[c].err = IF errResp = "" THEN ""
                                           ELSE "failed to create bucket: " \o errResp]
    /\ UNCHANGED <<fs, objects, rosTopic, validationTopic, authEnabled, req, middleware>>

\* a process whose storage client was built serves an upload request
ServeUpload(r) ==
    /\ \E c \in Clients : storage.client[c].pc = "ready"
    /\ HandleUploadOf(r, ConcurrentArchives(r))

\* the processes build their storage clients concurrently, and those that
\* have one serve requests
NextBucket ==
    \/ \E c \in Clients : BucketExists(c) \/ MakeBucket(c)
    \/ \E r \in Served :
          \/ ServeUpload(r)
          \/ UploadFile(r)
          \/ SendROSEvent(r)
          \/ SendValidationMessage(r)

SpecBucket == InitBucket /\ [][NextBucket]_vars

(***************************************************************************)
(* auth.KubernetesAuthMiddleware and auth.AuthMiddleware                   *)
(***************************************************************************)

\* the prefix AuthMiddleware requires of the Authorization header
bearerPrefix == "Bearer "

\* the Authorization headers of the requests: none, another scheme, the
\* scheme in lower case, the bare prefix, and two bearer tokens
AuthHeaders ==
    {"", "Basic tokA", "bearer tokA", bearerPrefix,
     bearerPrefix \o "tokA", bearerPrefix \o "tokB"}

\* the user the API server knows under a token
UserOf(token) ==
    IF \E c \in Contexts : c.present /\ c.token = token
    THEN CHOOSE c \in Contexts : c.present /\ c.token = token
    ELSE NoAuthContext

\* what TokenReviews().Create can return for a token: an error, a result that
\* is not authenticated, or an authenticated result with the user
TokenReviews(token) ==
    { [err |-> TRUE, Authenticated |-> FALSE, User |-> NoAuthContext, is |-> "error"],
      [err |-> FALSE, Authenticated |-> FALSE, User |-> NoAuthContext,
       is |-> "unauthenticated"],
      [err |-> FALSE, Authenticated |-> TRUE, User |-> UserOf(token),
       is |-> "authenticated"] }

\* the request turned away by http.Error, after the given TokenReview calls
Unauthorized(statusCode, reviews, authHeader) ==
    [header |-> authHeader, reviews |-> reviews, status |-> statusCode,
     next |-> FALSE, ctx |-> NoAuthContext, answer |-> ""]

\* the handler of AuthMiddleware that takes every header for a token
AuthenticateAnyScheme(authHeader, result) ==
    IF result.err THEN Unauthorized(500, <<authHeader>>, authHeader)
    ELSE IF ~result.Authenticated THEN Unauthorized(401, <<authHeader>>, authHeader)
    ELSE [header |-> authHeader, reviews |-> <<authHeader>>, status |-> 0, next |-> TRUE,
          ctx |-> [present |-> TRUE, token |-> authHeader,
                   groups |-> result.User.groups, extra |-> result.User.extra],
          answer |-> ""]

\* the handler AuthMiddleware returns, on a request with the given
\* Authorization header when TokenReviews().Create, if called, returns result
Authenticate(authHeader, result) ==
    LET token == TrimPrefix(authHeader, bearerPrefix)
    IN  IF authHeader = "" THEN Unauthorized(401, <<>>, authHeader)
        ELSE IF ~HasPrefix(authHeader, bearerPrefix)
        THEN Unauthorized(401, <<>>, authHeader)
        ELSE IF token = "" THEN Unauthorized(401, <<>>, authHeader)
        ELSE IF result.err THEN Unauthorized(500, <<token>>, authHeader)
        ELSE IF ~result.Authenticated THEN Unauthorized(401, <<token>>, authHeader)
        ELSE [header |-> authHeader, reviews |-> <<token>>, status |-> 0, next |-> TRUE,
              ctx |-> [present |-> TRUE, token |-> token,
                       groups |-> result.User.groups, extra |-> result.User.extra],
              answer |-> ""]

\* the handler NoOpAuthMiddleware returns: every request passes with the mock
\* user and the mock token
NoOpAuthenticate(authHeader) ==
    [header |-> authHeader, reviews |-> <<>>, status |-> 0, next |-> TRUE,
     ctx |-> [present |-> TRUE, token |-> "dev-token",
              groups |-> <<"system:authenticated">>, extra |-> <<>>],
     answer |-> ""]

\* what KubernetesAuthMiddleware does when GetKubernetesConfig or NewForConfig
\* fails: the source declares the function twice, once ending the process
\* with log.Fatal and once returning NoOpAuthMiddleware
StartupFailure == {"fatal", "noop"}

\* main before the router is built
Starting == "starting"

\* the service starts with the process about to build its middleware
InitAuth ==
    /\ fs = InitFS
    /\ objects = <<>>
    /\ rosTopic = <<>>
    /\ validationTopic = <<>>
    /\ authEnabled \in BOOLEAN
    /\ req = [r \in RequestIDs |-> IdleRequest]
    /\ storage = Serving
    /\ middleware = Starting

\* auth.KubernetesAuthMiddleware, called once by main
KubernetesAuthMiddleware ==
    /\ middleware = Starting
    /\ \E configErr, clientErr \in BOOLEAN :
          IF configErr \/ clientErr
          THEN middleware' \in StartupFailure
          ELSE middleware' = "token_review"
    /\ UNCHANGED <<fs, objects, rosTopic, validationTopic, authEnabled, req, storage>>

\* the middleware of the router receives request r
AuthMiddleware(r) ==
    /\ middleware = "token_review"
    /\ req[r].pc = "idle" /\ req[r].auth.answer = ""
    /\ \E authHeader \in AuthHeaders :
       \E result \in TokenReviews(TrimPrefix(authHeader, bearerPrefix)) :
       \E a \in {Authenticate(authHeader, result)} :
          req' = [req EXCEPT ![r].auth = [a EXCEPT !.answer = result.is],
                             ![r].pc = IF a.next THEN "idle" ELSE "done",
                             ![r].status = a.status]
    /\ UNCHANGED <<fs, objects, rosTopic, validationTopic, authEnabled, storage, middleware>>

\* the pass-through middleware receives request r
NoOpAuthMiddleware(r) ==
    /\ middleware = "noop"
    /\ req[r].pc = "idle" /\ ~req[r].auth.next
    /\ \E authHeader \in AuthHeaders :
          req' = [req EXCEPT ![r].auth = NoOpAuthenticate(authHeader)]
    /\ UNCHANGED <<fs, objects, rosTopic, validationTopic, authEnabled, storage, middleware>>

\* the context of every request but one's own, where that one has a token
ContextOfOther(r) ==
    IF req[OtherRequest(r)].auth.next THEN req[OtherRequest(r)].auth.ctx
    ELSE req[r].auth.ctx

\* r.Context() in HandleUpload: the context the middleware passed on with r
RequestContext(r) == req[r].auth.ctx

\* the archive of the requests that come through the middleware
AuthArchives ==
    { [gzip |-> TRUE,
       entries |-> <<Header("manifest.json", "reg", ManifestDoc("u1", "c1", <<"cost.csv">>)),
                     Header("cost.csv", "reg", CsvData)>>] }

\* next.ServeHTTP(w, r): HandleUpload on the request the middleware passed on
ServeHTTP(r) ==
    /\ req[r].auth.next
    /\ HandleUploadWith(r, AuthArchives,
           { IngressStatus(in, RequestContext(r), authEnabled) : in \in Requests } \ {0},
           { ctx \in {RequestContext(r)} :
                 \E in \in Requests : IngressStatus(in, ctx, authEnabled) = 0 })

\* the service from the start of main: the middleware is built, and requests
\* come through it to HandleUpload concurrently
NextAuth ==
    \/ KubernetesAuthMiddleware
    \/ \E r \in RequestIDs :
          \/ AuthMiddleware(r)
          \/ NoOpAuthMiddleware(r)
          \/ ServeHTTP(r)
          \/ UploadFile(r)
          \/ SendROSEvent(r)
          \/ SendValidationMessage(r)

SpecAuth == InitAuth /\ [][NextAuth]_vars

(***************************************************************************)
(* Handler.createIdentityFromOAuth2User over the users of a TokenReview    *)
(***************************************************************************)

\* the longest list of groups of a user
MaxGroups == 2

\* the groups a user can be in
UserGroups == {"org:", "org:7", "org:8", "account:5", "account:", "dev"}

\* the values of the extra field of a user under a key: more than one, or none
ExtraValues(key) == {<<>>, <<"first-" \o key, "second">>}

\* the keys of the extra fields the handler reads
ExtraKeys == {"org_id", "account_number", "customer_id", "client_id"}

\* the values user.Extra can have: any of the keys present
UserExtras ==
    UNION { { x \in [keys -> UNION { ExtraValues(k) : k \in keys }] :
                 \A k \in keys : x[k] \in ExtraValues(k) } :
            keys \in SUBSET ExtraKeys }

\* the UserInfo values a TokenReview can return, as contexts of a request
Users ==
    { [present |-> TRUE, token |-> "tokA", groups |-> g, extra |-> e] :
        g \in SeqsUpTo(UserGroups, MaxGroups), e \in UserExtras }

\* a request of each user is past the middleware
InitIdentity ==
    /\ fs = InitFS
    /\ objects = <<>>
    /\ rosTopic = <<>>
    /\ validationTopic = <<>>
    /\ authEnabled = TRUE
    /\ \E user \in Users :
          req = [r \in RequestIDs |->
                    IF r \in Served
                    THEN [IdleRequest EXCEPT !.auth.next = TRUE, !.auth.ctx = user]
                    ELSE IdleRequest]
    /\ storage = Serving
    /\ middleware = "token_review"

\* HandleUpload up to extractIdentity on the user of the context
CreateIdentity(r) ==
    /\ req[r].pc = "idle" /\ req[r].auth.next
    /\ req' = [req EXCEPT ![r].identity = extractIdentity(authEnabled, RequestContext(r)).identity,
                          ![r].pc = "identified"]
    /\ UNCHANGED <<fs, objects, rosTopic, validationTopic, authEnabled, storage, middleware>>

NextIdentity == \E r \in Served : CreateIdentity(r)

SpecIdentity == InitIdentity /\ [][NextIdentity]_vars

(***************************************************************************)
(* The delivery channels of SendROSEvent and SendValidationMessage         *)
(***************************************************************************)

\* SendROSEvent returned from case <-ctx.Done() or case <-time.After, both of
\* which close deliveryChan, while the producer still owes the delivery
\* report of the message Produce accepted with that channel
ROSChanClosedEarly(r) == req[r].delivery \in {"ctx_done", "timeout"}

\* the same for the deliveryChan of SendValidationMessage
ValidationChanClosedEarly(r) ==
    HasPrefix(req[r].validationErr, "validation message delivery timeout")

\* the producer delivers the report of the ROS message after the wait of
\* SendROSEvent has ended: its send finds deliveryChan closed
LateDeliveryReport(r) ==
    /\ ROSChanClosedEarly(r)
    /\ "ros" \notin req[r].sentOnClosed
    /\ req' = [req EXCEPT ![r].sentOnClosed = @ \cup {"ros"}]
    /\ UNCHANGED <<fs, objects, rosTopic, validationTopic, authEnabled, storage, middleware>>

\* the producer delivers the report of the validation message after the wait
\* of SendValidationMessage has ended
LateValidationReport(r) ==
    /\ ValidationChanClosedEarly(r)
    /\ "validation" \notin req[r].sentOnClosed
    /\ req' = [req EXCEPT ![r].sentOnClosed = @ \cup {"validation"}]
    /\ UNCHANGED <<fs, objects, rosTopic, validationTopic, authEnabled, storage, middleware>>

\* the pipeline next to the goroutine of the producer that delivers the
\* reports: to the waiting select, or after it has returned
NextChannel ==
    \E r \in Served :
        \/ HandleUploadOf(r, AuthArchives)
        \/ UploadFile(r)
        \/ ProduceROSEvent(r)
        \/ DeliveryReport(r)
        \/ ContextDone(r)
        \/ TimeAfter(r)
        \/ LateDeliveryReport(r)
        \/ SendValidationMessage(r)
        \/ LateValidationReport(r)

SpecChannel == Init /\ [][NextChannel]_vars

\* the Go runtime fires the timer of time.After while the select waits
SpecDelivery ==
    Init /\ [][NextDelivery]_vars /\ \A r \in Served : WF_vars(TimeAfter(r))

(***************************************************************************)
(* Properties                                                              *)
(***************************************************************************)

Paths == fs.dirs \cup DOMAIN fs.files

ExtractDir(r) == Join(TempDir, r)

Range(seq) == { seq[i] : i \in 1..Len(seq) }

\* no upload call and no publish call was made for r
NothingSent(r) ==
    /\ req[r].uploadCalls = <<>>
    /\ req[r].rosCalls = 0
    /\ req[r].validationCalls = 0
    /\ \A k \in DOMAIN objects : objects[k].RequestId /= r
    /\ \A i \in 1..Len(rosTopic) : rosTopic[i].request_id /= r
    /\ \A i \in 1..Len(validationTopic) : validationTopic[i].request_id /= r

\* C1: every file and directory that exists besides the initial ones lies in
\* the extraction directory of a request: no tar entry is written outside it
C1_NoEntryOutsideExtractDir ==
    \A p \in Paths \ InitFS.dirs : \E r \in RequestIDs : Under(p, ExtractDir(r))

ExtractFailed(r) == req[r].extractCalls = 1 /\ req[r].payload = NoPayload
UploadHasFailed(r) == Len(req[r].uploadCalls) > Len(req[r].objectKeys)
PublishFailed(r) == req[r].rosCalls > 0 /\ ~req[r].rosAcked

C4_ValidationFailureNotFatal ==
    \A r \in RequestIDs :
        req[r].pc = "done" /\ req[r].rosAcked
            => req[r].status = 202 /\ req[r].err = ""

\* the validation publication failed and the request succeeded
C4_Witness ==
    \E r \in RequestIDs :
        /\ req[r].pc = "done" /\ req[r].validationCalls = 1
        /\ req[r].validationErr /= "" /\ req[r].status = 202

\* C5: a manifest is resolved only from the list extraction returned; the
\* primary event is published only when every selected file was uploaded
\* successfully; the validation event only when the primary was acknowledged
C5_StepOrder ==
    \A r \in RequestIDs :
        /\ req[r].parsed.json =>
              /\ req[r].extractCalls = 1
              /\ \E f \in Range(req[r].extractedFiles) : Base(f) = "manifest.json"
        /\ req[r].rosCalls > 0 =>
              /\ req[r].payload /= NoPayload
              /\ Range(req[r].uploadCalls) = DOMAIN req[r].payload.ROSFiles
              /\ Len(req[r].objectKeys) = Cardinality(DOMAIN req[r].payload.ROSFiles)
              /\ Range(req[r].objectKeys) \subseteq DOMAIN objects
        /\ req[r].validationCalls > 0 => req[r].rosCalls = 1 /\ req[r].rosAcked

\* both events were published for a request with two selected files
C5_Witness ==
    \E r \in RequestIDs :
        /\ req[r].validationCalls = 1
        /\ Cardinality(DOMAIN req[r].payload.ROSFiles) = 2

\* C6: when the upload of a selected file has failed, it was the last upload
\* started, no event was published and the error names the file
C6_FailFast ==
    \A r \in RequestIDs :
        UploadHasFailed(r) =>
            LET n == Len(req[r].uploadCalls) IN
            /\ req[r].pc = "done"
            /\ n = Len(req[r].objectKeys) + 1
            /\ req[r].rosCalls = 0 /\ req[r].validationCalls = 0
            /\ \A i \in 1..Len(rosTopic) : rosTopic[i].request_id /= r
            /\ HasPrefix(req[r].err,
                         "failed to upload ROS file " \o req[r].uploadCalls[n] \o ":")

\* the first of two uploads failed, the other file was never uploaded
C6_Witness ==
    \E r \in RequestIDs :
        /\ UploadHasFailed(r)
        /\ Len(req[r].uploadCalls) = 1
        /\ Cardinality(req[r].pending) = 2

\* C7: no step removes or changes a stored object, and the step in which a
\* request fails leaves the bucket as it is
C7_NoRollback ==
    [][ /\ \A k \in DOMAIN objects : k \in DOMAIN objects' /\ objects'[k] = objects[k]
        /\ \A r \in RequestIDs :
              (req[r].pc /= "done" /\ req'[r].pc = "done" /\ req'[r].err /= "")
                  => objects' = objects ]_vars

\* a request failed after one of its files was stored, and the object is there
C7_Witness ==
    \E r \in RequestIDs :
        /\ req[r].pc = "done" /\ req[r].err /= ""
        /\ req[r].objectKeys /= <<>>
        /\ \A i \in 1..Len(req[r].objectKeys) :
              /\ req[r].objectKeys[i] \in DOMAIN objects
              /\ objects[req[r].objectKeys[i]].RequestId = r

\* the manifest ExtractPayload read is valid
ValidManifest(m) == m.json /\ m.uuid /= "" /\ m.cluster_id /= ""

\* no declared name is the base name of an extracted entry
NoneSelected(m, extractedFiles) ==
    \A i \in 1..Len(m.resource_optimization_files) :
        \A f \in Range(extractedFiles) : Base(f) /= m.resource_optimization_files[i]

NoROSFilesErrors ==
    { "failed to extract payload: failed to identify ROS files: "
          \o "no ROS files specified in manifest",
      "failed to extract payload: failed to identify ROS files: "
          \o "no ROS files found in payload" }

ExtractionError(r) ==
    HasPrefix(req[r].err, "failed to extract payload: failed to extract tar.gz")

ManifestNotFound ==
    "failed to extract payload: failed to parse manifest: manifest.json not found in payload"

\* the regular-file headers of the archive of r that extractTarGz does not
\* turn away as path traversal
Materialized(r) ==
    { h \in Range(req[r].file.entries) :
        h.typeflag = "reg" /\ HasPrefix(Join(ExtractDir(r), h.name), ExtractDir(r)) }

\* C9: after an extraction without error, the request fails with manifest not
\* found exactly if no extracted entry has the base name manifest.json, and
\* then nothing is uploaded or published
C9_ManifestByExactBaseName ==
    \A r \in RequestIDs :
        (req[r].extractCalls = 1 /\ ~ExtractionError(r)) =>
            /\ req[r].err = ManifestNotFound
                  <=> ~\E h \in Materialized(r) : Base(h.name) = "manifest.json"
            /\ req[r].err = ManifestNotFound
                  => req[r].pc = "done" /\ req[r].status = 500 /\ NothingSent(r)

\* an entry whose name only contains manifest.json was extracted, another was
\* turned away as path traversal, and no manifest was found
C9_Witness ==
    \E r \in RequestIDs :
        /\ req[r].err = ManifestNotFound
        /\ \E h \in Materialized(r) : h.name = "my-manifest.json.bak"
        /\ \E h \in Range(req[r].file.entries) : h.name = "../../etc/passwd"

ManifestInvalidErrors ==
    { "failed to extract payload: failed to parse manifest: manifest UUID is missing",
      "failed to extract payload: failed to parse manifest: manifest cluster_id is missing" }

DeclaredAndExtracted(r) ==
    { n \in Range(req[r].parsed.resource_optimization_files) :
        \E h \in Materialized(r) : Base(h.name) = n }

\* C11: when a declared name matches an extracted entry, the request goes on
\* with exactly the declared names that are base names of extracted entries
\* selected, and nothing else is ever uploaded for it
C11_SelectionIsIntersection ==
    LET Selects(r, names) ==
            names /= {} =>
               /\ req[r].payload /= NoPayload
               /\ DOMAIN req[r].payload.ROSFiles = names
               /\ Range(req[r].uploadCalls) \subseteq names
               /\ \A k \in DOMAIN objects :
                     objects[k].RequestId = r => objects[k].name \in names
               /\ ~HasPrefix(req[r].err, "failed to extract payload")
    IN  \A r \in RequestIDs :
            ( /\ req[r].extractCalls = 1 /\ ~ExtractionError(r)
              /\ ValidManifest(req[r].parsed) )
            => Selects(r, DeclaredAndExtracted(r))

\* usage.csv is declared and not extracted, another file is extracted and not
\* declared, and the request succeeded with cost.csv alone
C11_Witness ==
    \E r \in RequestIDs :
        /\ req[r].pc = "done" /\ req[r].status = 202
        /\ DeclaredAndExtracted(r) = {"cost.csv"}
        /\ "usage.csv" \in Range(req[r].parsed.resource_optimization_files)
        /\ "/etc/cron.d/job" \in Range(req[r].extractedFiles)
        /\ Range(req[r].uploadCalls) = {"cost.csv"}

\* where extractTarGz puts the entry of header h of request r
EntryPath(r, h) == Join(ExtractDir(r), h.name)

\* the regular-file and directory headers of the archive of r that
\* extractTarGz does not turn away as path traversal
Handled(r) ==
    { h \in Range(req[r].file.entries) :
        h.typeflag \in {"reg", "dir"} /\ HasPrefix(EntryPath(r, h), ExtractDir(r)) }

\* the archive of r asks for a regular file where it also asks for a
\* directory: at the extraction directory, at a directory entry, or above
\* another entry
Collides(r) ==
    LET Clash(dir, files, entries) ==
            \E p \in files :
                \/ p = dir
                \/ \E e \in entries :
                      Under(e.path, p) /\ (e.typeflag = "dir" \/ e.path /= p)
    IN  Clash(ExtractDir(r),
              { EntryPath(r, h) : h \in Materialized(r) },
              { [path |-> EntryPath(r, h), typeflag |-> h.typeflag] : h \in Handled(r) })

\* the names of the headers of entries that are regular files not turned
\* away as path traversal, in the order of the archive
RECURSIVE RegularNames(_, _)
RegularNames(r, entries) ==
    IF entries = <<>> THEN <<>>
    ELSE IF /\ Head(entries).typeflag = "reg"
            /\ HasPrefix(EntryPath(r, Head(entries)), ExtractDir(r))
    THEN <<Head(entries).name>> \o RegularNames(r, Tail(entries))
    ELSE RegularNames(r, Tail(entries))

\* the directories the regular-file and directory entries of r account for
EntryDirs(r) ==
    AncestorsOrSelf(ExtractDir(r))
        \cup UNION { AncestorsOrSelf(EntryPath(r, h)) :
                        h \in { d \in Handled(r) : d.typeflag = "dir" } }
        \cup UNION { AncestorsOrSelf(Dir(EntryPath(r, h))) : h \in Materialized(r) }

\* C12: after an extraction without error the extracted-entry list holds the
\* regular-file entries only, and while the directory exists every file on
\* disk comes from a regular-file entry and every directory from a
\* regular-file or directory entry; an entry of another type is no cause of
\* an extraction error
C12_OnlyRegularAndDirectories ==
    \A r \in RequestIDs :
        req[r].extractCalls = 1 =>
            /\ ~ExtractionError(r) =>
                  req[r].extractedFiles = RegularNames(r, req[r].file.entries)
            /\ req[r].pc \in {"uploading", "publishing", "validating"} =>
                  /\ DOMAIN fs.files = { EntryPath(r, h) : h \in Materialized(r) }
                  /\ fs.dirs \subseteq InitFS.dirs \cup EntryDirs(r)
            /\ ExtractionError(r) =>
                  \/ ~req[r].file.gzip
                  \/ \E h \in Range(req[r].file.entries) : h.typeflag = "corrupt"
                  \/ Collides(r)

\* usage.csv is declared by the manifest and is a symlink in the archive:
\* extraction went on, it is not on disk and only cost.csv is selected
C12_Witness ==
    \E r \in RequestIDs :
        /\ req[r].pc = "uploading"
        /\ \E h \in Range(req[r].file.entries) :
              h.typeflag = "symlink" /\ h.name = "usage.csv"
        /\ "usage.csv" \in Range(req[r].parsed.resource_optimization_files)
        /\ ~Exists(fs, Join(ExtractDir(r), "usage.csv"))
        /\ DOMAIN req[r].payload.ROSFiles = {"cost.csv"}

\* gzip.NewReader and every tarReader.Next can read the archive of r
WellFormed(r) ==
    /\ req[r].file.gzip
    /\ \A h \in Range(req[r].file.entries) : h.typeflag /= "corrupt"

KeyOf(r, fileName) ==
    StorageKey(GenerateUploadPath(getSchemaName(req[r].identity),
                                  req[r].payload.Manifest.cluster_id,
                                  FormatDate(req[r].payload.Manifest.date),
                                  fileName))

\* the locators an upload under key can report: the presigned URL of key, or
\* the empty string when the URL could not be generated
LocatorsOf(key) == {"", "https://minio/" \o key}

\* C14: in every published event the list files and the list object_keys
\* have the same length, the number of selected files of the request, and
\* for every index both entries come from the upload of the same file: the
\* i-th file uploaded by the request, in whatever order the loop ran
C14_ListsAligned ==
    \A m \in Range(rosTopic) :
        LET Aligned(q, n) ==
                /\ Len(m.files) = n
                /\ Len(m.object_keys) = n
                /\ Len(q.uploadCalls) = n
                /\ Range(q.uploadCalls) = DOMAIN q.payload.ROSFiles
                /\ \A i \in 1..n :
                      /\ m.object_keys[i] = KeyOf(m.request_id, q.uploadCalls[i])
                      /\ m.files[i] \in LocatorsOf(m.object_keys[i])
                      /\ m.object_keys[i] \in DOMAIN objects
                      /\ objects[m.object_keys[i]].name = q.uploadCalls[i]
        IN  Aligned(req[m.request_id], Cardinality(DOMAIN req[m.request_id].payload.ROSFiles))

\* an event of two files uploaded in the order usage.csv, cost.csv, the first
\* without a presigned URL, was published
C14_Witness ==
    \E m \in Range(rosTopic) :
        /\ req[m.request_id].uploadCalls = <<"usage.csv", "cost.csv">>
        /\ Len(m.object_keys) = 2
        /\ m.files[1] = ""
        /\ m.files[2] /= ""

\* the key the storage-key layout prescribes for the tuple
LayoutKey(schema, sourceID, date, filename) ==
    schema \o "/source=" \o sourceID \o "/date=" \o date \o "/" \o filename

\* C15: for every (schema, sourceID, date, filename) the upload loop passes,
\* GenerateUploadPath returns exactly schema + "/source=" + sourceID +
\* "/date=" + date + "/" + filename
C15_KeyIsConcatenation ==
    \A r \in RequestIDs : \A fileName \in Range(req[r].uploadCalls) :
        LET Same(schema, sourceID, date) ==
                GenerateUploadPath(schema, sourceID, date, fileName)
                    = LayoutKey(schema, sourceID, date, fileName)
        IN  Same(getSchemaName(req[r].identity),
                 req[r].payload.Manifest.cluster_id,
                 FormatDate(req[r].payload.Manifest.date))

\* the key of the layout for the i-th file uploaded by request r
LayoutKeyOf(r, i) ==
    LayoutKey(getSchemaName(req[r].identity),
              req[r].payload.Manifest.cluster_id,
              FormatDate(req[r].payload.Manifest.date),
              req[r].uploadCalls[i])

\* the schema and the manifest cluster id of request r are single path
\* elements
SingleElements(r) ==
    /\ ~Contains(getSchemaName(req[r].identity), "/")
    /\ ~Contains(req[r].payload.Manifest.cluster_id, "/")

\* the file stored by the i-th upload of request r is in the bucket under key
StoredUnder(r, i, key) ==
    /\ key \in DOMAIN objects
    /\ objects[key].name = req[r].uploadCalls[i]
    /\ objects[key].RequestId = r

Partition(schema) == StorageKey(schema) \o "/source="

\* C17: every object stored for a request whose tenant schema is S has a key
\* inside the partition of S (below the path prefix, it begins with S
\* followed by "/source="), for every manifest cluster id and file name
C17_KeyInsideOwnPartition ==
    \A key \in DOMAIN objects :
        HasPrefix(key, Partition(getSchemaName(req[objects[key].RequestId].identity)))

\* the request has no identity, or an identity with an empty org id
NoTenant(identity) == identity.nil \/ identity.OrgID = ""

C19_ClusterAliasFallback ==
    \A m \in Range(rosTopic) :
        LET Carries(manifest) ==
                /\ manifest.cluster_alias /= ""
                      => m.metadata.cluster_alias = manifest.cluster_alias
                /\ manifest.cluster_alias = ""
                      => m.metadata.cluster_alias = manifest.cluster_id
                /\ m.metadata.cluster_uuid = manifest.cluster_id
        IN  Carries(req[m.request_id].parsed)

\* an event for a manifest without alias was published, carrying the cluster
\* id c1 as alias
C19_Witness ==
    \E m \in Range(rosTopic) :
        /\ req[m.request_id].parsed.cluster_alias = ""
        /\ req[m.request_id].parsed.cluster_id = "c1"
        /\ m.metadata.cluster_alias = "c1"

\* an event for a manifest with the alias prod was published, carrying prod
C19_WitnessAlias ==
    \E m \in Range(rosTopic) :
        /\ req[m.request_id].parsed.cluster_alias = "prod"
        /\ m.metadata.cluster_alias = "prod"
        /\ m.metadata.cluster_uuid = ClimbingClusterID

\* SendROSEvent was called for request r and has returned
Returned(r) == req[r].rosCalls = 1 /\ req[r].pc /= "awaiting"

\* what SendROSEvent returned to request r: nil only with a delivery report
\* without error for the message handed to the producer; an error named
\* after what ended the wait otherwise, which processUpload returns
ReturnedRight(r) ==
    /\ req[r].rosAcked <=> req[r].delivery = "delivered"
    /\ req[r].rosAcked =>
          /\ \E m \in Range(rosTopic) : m.request_id = r
          /\ ~HasPrefix(req[r].err, "failed to send ROS event")
    /\ ~req[r].rosAcked =>
          /\ req[r].delivery \in {"produce_error", "delivery_error", "ctx_done", "timeout"}
          /\ req[r].err = "failed to send ROS event: "
                             \o DeliveryError("ROS message", "", "30", req[r].delivery)
          /\ req[r].err /= "failed to send ROS event: "
          /\ req[r].pc = "done"

\* C20: every call of SendROSEvent returns: with success only after the
\* delivery report of the message arrived without error, and otherwise with
\* an error when the delivery report carries an error, the context is done
\* or the 30 seconds have elapsed, whichever ends the wait first; the wait
\* never lasts forever
C20_SendROSEventReturns ==
    /\ [](\A r \in Served : Returned(r) => ReturnedRight(r))
    /\ \A r \in Served : (req[r].pc = "awaiting") ~> Returned(r)

\* SendROSEvent returned the timeout error after waiting
C20_Witness ==
    \E r \in Served :
        /\ Returned(r)
        /\ req[r].delivery = "timeout"
        /\ req[r].err = "failed to send ROS event: message delivery timeout after 30 seconds"
        /\ \E m \in Range(rosTopic) : m.request_id = r

\* the errors of the timeout class, as processUpload returns them
TimeoutClass(err) == HasPrefix(err, "failed to send ROS event: message delivery timeout")

\* C21: when the context of the caller is done while SendROSEvent awaits the
\* delivery report, the call returns an error of the timeout class, and
\* that error differs from the error returned when the delivery report
\* carries an error, which is not of the timeout class
C21_TimeoutDistinctFromRejection ==
    \A r \in Served :
        Returned(r) =>
            /\ req[r].delivery = "ctx_done" =>
                  /\ TimeoutClass(req[r].err)
                  /\ req[r].err /= "failed to send ROS event: "
                                     \o DeliveryError("ROS message", "", "30", "delivery_error")
            /\ req[r].delivery = "delivery_error" =>
                  /\ ~TimeoutClass(req[r].err)
                  /\ req[r].err = "failed to send ROS event: message delivery failed"

\* the context ended the wait of a message handed to the producer
C21_Witness ==
    \E r \in Served :
        /\ Returned(r)
        /\ req[r].delivery = "ctx_done"
        /\ req[r].err = "failed to send ROS event: message delivery timeout: context canceled"
        /\ \E m \in Range(rosTopic) : m.request_id = r

\* the context of request r was cancelled while tar headers were still to
\* be read
CancelledInExtraction(r) ==
    /\ req[r].ctx.during = "extraction"
    /\ req[r].extractCalls = 1
    /\ req[r].ctx.read < Len(req[r].file.entries)

\* the names of the first n headers of the archive of request r
NamesRead(r, n) == { req[r].file.entries[i].name : i \in 1..n }

\* C22: when the context is cancelled while the archive is extracted or
\* while a file is uploaded, the work in flight is abandoned (no entry read
\* after the cancellation is extracted, no upload is started after it), the
\* request fails, and the extraction directory is removed when it ends
C22_CancellationAbandonsWork ==
    \A r \in Served :
        /\ CancelledInExtraction(r) =>
              /\ Range(req[r].extractedFiles) \subseteq NamesRead(r, req[r].ctx.read)
              /\ req[r].uploadCalls = <<>>
        /\ (req[r].ctx.done /\ req[r].extractCalls = 1 /\ req[r].pc = "done") =>
              /\ req[r].status = 500
              /\ ~Exists(fs, ExtractDir(r))

\* no element occurs twice in seq
NoDuplicates(seq) == \A i, j \in 1..Len(seq) : seq[i] = seq[j] => i = j

\* the validation publication of request r failed
ValidationFailed(r) == req[r].validationCalls > 0 /\ req[r].validationErr /= ""

\* within request r no file is uploaded twice and each publication is
\* attempted at most once
AtMostOnce(r) ==
    /\ NoDuplicates(req[r].uploadCalls)
    /\ Len(req[r].uploadCalls) <= Len(req[r].parsed.resource_optimization_files)
    /\ req[r].payload /= NoPayload
          => Range(req[r].uploadCalls) \subseteq DOMAIN req[r].payload.ROSFiles
    /\ req[r].rosCalls <= 1
    /\ req[r].validationCalls <= 1
    /\ Cardinality({ i \in 1..Len(rosTopic) : rosTopic[i].request_id = r }) <= 1
    /\ Cardinality({ i \in 1..Len(validationTopic) :
                        validationTopic[i].request_id = r }) <= 1

\* C23 as stated: no file is uploaded twice, each publication is attempted
\* at most once, and a failed attempt (upload, primary publication or
\* validation publication) is surfaced as the failure of the request
C23_FailedAttemptSurfaced ==
    \A r \in RequestIDs :
        /\ AtMostOnce(r)
        /\ (UploadHasFailed(r) \/ PublishFailed(r) \/ ValidationFailed(r))
              => req[r].pc = "done" /\ req[r].status = 500

\* C23 amended: no file is uploaded twice (also when the manifest names it
\* twice), each publication is attempted at most once; a failed upload or
\* primary publication is surfaced as the failure of the request, a failed
\* validation publication is not surfaced, and none is repeated
C23_NoRetry ==
    \A r \in RequestIDs :
        /\ AtMostOnce(r)
        /\ (UploadHasFailed(r) \/ PublishFailed(r))
              => req[r].pc = "done" /\ req[r].status = 500
        /\ UploadHasFailed(r) => Len(req[r].uploadCalls) = Len(req[r].objectKeys) + 1
        /\ ValidationFailed(r)
              => req[r].pc = "done" /\ req[r].status = 202 /\ req[r].validationCalls = 1

\* the manifest named cost.csv twice; after one failed Upload of it the
\* request ended
C23_Witness ==
    \E r \in RequestIDs :
        /\ req[r].parsed.resource_optimization_files = <<"cost.csv", "cost.csv">>
        /\ req[r].uploadCalls = <<"cost.csv">>
        /\ UploadHasFailed(r)
        /\ req[r].pc = "done"

\* the manifest named cost.csv twice; it was uploaded once and the request
\* succeeded although the validation publication failed
C23_WitnessValidation ==
    \E r \in RequestIDs :
        /\ req[r].parsed.resource_optimization_files = <<"cost.csv", "cost.csv">>
        /\ req[r].uploadCalls = <<"cost.csv">>
        /\ ValidationFailed(r)
        /\ req[r].status = 202

\* the kind of failure an error of processUpload stands for
FailureKind(err) ==
    LET In(e) ==
            IF HasPrefix(e, "failed to parse manifest: ")
            THEN IF e = "failed to parse manifest: manifest.json not found in payload"
                 THEN "manifest not found"
                 ELSE IF e \in {"failed to parse manifest: failed to parse manifest JSON",
                                "failed to parse manifest: failed to read manifest file"}
                 THEN "manifest parse error"
                 ELSE "manifest validation error"
            ELSE IF HasPrefix(e, "failed to identify ROS files: ")
            THEN "no selected files"
            ELSE "extraction failure"
    IN  IF HasPrefix(err, "failed to extract payload: ")
        THEN In(TrimPrefix(err, "failed to extract payload: "))
        ELSE IF err = "no ROS files found in payload" THEN "no selected files"
        ELSE IF HasPrefix(err, "failed to upload ROS file ") THEN "upload failure"
        ELSE IF HasPrefix(err, "failed to send ROS event: ") THEN "delivery failure"
        ELSE "other"

\* one error of processUpload of each kind
FailureErrors ==
    { "failed to extract payload: failed to extract tar.gz: failed to create gzip reader",
      "failed to extract payload: failed to parse manifest: manifest.json not found in payload",
      "failed to extract payload: failed to parse manifest: failed to parse manifest JSON",
      "failed to extract payload: failed to parse manifest: manifest UUID is missing",
      "failed to extract payload: failed to identify ROS files: no ROS files found in payload",
      "failed to upload ROS file cost.csv: failed to upload to MinIO",
      "failed to send ROS event: message delivery failed" }

\* the answer HandleUpload gave to the failed request r
Response(r) == ProcessUploadFailed(req[r].err)

\* C24: the failure of a request surfaces to the caller with a reason that
\* identifies its kind: the reason in the answer to a failed request differs
\* from the reason with which a failure of any other kind is answered
C24_ReasonIdentifiesKind ==
    \A r \in RequestIDs :
        (req[r].pc = "done" /\ req[r].status = 500) =>
            \A err \in FailureErrors :
                FailureKind(err) /= FailureKind(req[r].err)
                    => ProcessUploadFailed(err).error /= Response(r).error

\* request r holds an extraction directory: ExtractPayload has returned its
\* payload and the deferred Cleanup has not run yet
InFlight(r) == req[r].pc \in {"uploading", "publishing", "validating"}

\* the files of the file system in the extraction directory of request r
FilesUnder(r) == { p \in DOMAIN fs.files : Under(p, ExtractDir(r)) }

\* the files the archive of request r puts into its extraction directory
OwnEntries(r) == { h \in Materialized(r) : Under(EntryPath(r, h), ExtractDir(r)) }

\* the extraction directory of the in-flight request r holds what its own
\* archive put there and nothing else, and r selects no file of another
\* request
Exclusive(r) ==
    /\ Exists(fs, ExtractDir(r))
    /\ req[r].payload.TempDir = ExtractDir(r)
    /\ FilesUnder(r) = { EntryPath(r, h) : h \in OwnEntries(r) }
    /\ \A h \in OwnEntries(r) : fs.files[EntryPath(r, h)] = h.content
    /\ \A f \in DOMAIN req[r].payload.ROSFiles :
          ~Under(req[r].payload.ROSFiles[f], ExtractDir(OtherRequest(r)))

\* C25: in every interleaving of concurrent requests each request extracts
\* into the directory named by its own identifier: no two requests share an
\* extraction directory, and the directory of an in-flight request is not
\* read, written or deleted by the extraction, selection or cleanup of
\* another request
C25_ExtractDirExclusive ==
    /\ \A r1, r2 \in RequestIDs :
          r1 /= r2 => /\ ExtractDir(r1) /= ExtractDir(r2)
                      /\ ~Under(ExtractDir(r1), ExtractDir(r2))
    /\ \A r \in RequestIDs : InFlight(r) => Exclusive(r)

\* a request is in flight with its two files, manifest.json and cost.csv,
\* while another request, whose
\* archive named entries into its directory, has run to its end
C25_Witness ==
    \E r \in RequestIDs :
        /\ InFlight(r)
        /\ Cardinality(FilesUnder(r)) = 2
        /\ req[OtherRequest(r)].pc = "done"
        /\ req[OtherRequest(r)].status = 202
        /\ \E h \in Range(req[OtherRequest(r)].file.entries) :
              Under(EntryPath(OtherRequest(r), h), ExtractDir(r))

\* C26: creating the bucket when it is absent is safe to race: when the
\* processes have run NewMinIOClient concurrently, each of them has
\* succeeded and the bucket exists
C26_BucketCreationSafeToRace ==
    \A c \in Clients :
        storage.client[c].pc \notin {"start", "make"}
            => /\ storage.client[c].pc = "ready"
               /\ storage.client[c].err = ""
               /\ storage.bucket

\* the keys of the objects the bucket holds for request r
StoredKeys(r) == { key \in DOMAIN objects : objects[key].RequestId = r }

\* C27: an object that was stored counts as uploaded whether or not its
\* presigned URL could be generated: its key is in the key list of the
\* request next to its locator, empty when the URL is missing; the request
\* does not fail for a missing locator, and the published event carries the
\* key
C27_LocatorFailureNotFatal ==
    \A r \in RequestIDs :
        /\ StoredKeys(r) = Range(req[r].objectKeys)
        /\ Len(req[r].uploadedFiles) = Len(req[r].objectKeys)
        /\ \A i \in 1..Len(req[r].objectKeys) :
              req[r].uploadedFiles[i] \in LocatorsOf(req[r].objectKeys[i])
        /\ (req[r].pc = "done" /\ req[r].rosAcked) => req[r].status = 202
        /\ \A m \in Range(rosTopic) :
              m.request_id = r => Range(m.object_keys) = StoredKeys(r)

\* a request was answered 202 and its event published with the key of an
\* object that has no locator
C27_Witness ==
    \E m \in Range(rosTopic) :
        /\ req[m.request_id].status = 202
        /\ m.files = <<"">>
        /\ Len(m.object_keys) = 1
        /\ m.object_keys[1] \in DOMAIN objects

\* the statuses of the requests HandleUpload answers before processUpload
IngressStatuses == {405, 200, 400, 401, 415, 413}

\* request r was answered without processUpload
TurnedAwayAtIngress(r) == req[r].pc = "done" /\ req[r].extractCalls = 0

\* nothing was extracted, uploaded or published for request r
Untouched(r) ==
    /\ req[r].payload = NoPayload
    /\ ~Exists(fs, ExtractDir(r))
    /\ fs = InitFS
    /\ req[r].uploadCalls = <<>>
    /\ StoredKeys(r) = {}
    /\ NothingSent(r)
    /\ \A m \in Range(rosTopic) \cup Range(validationTopic) : m.request_id /= r

\* the request passes the checks HandleUpload makes before the content type
PassesEarlierChecks(in, ctx, enabled) ==
    /\ in.method = "POST"
    /\ ~in.test
    /\ in.multipartOK
    /\ ~(enabled /\ extractIdentity(enabled, ctx).err)
    /\ in.hasFile

\* C28: processUpload runs only for requests that passed every ingress
\* check: a request that reaches the check of the content type with a type
\* matching none of the allow-list, the gzip pattern and the vendor pattern
\* is answered 415, and for every request answered 405, 400, 401, 415, 413
\* or as a test request no extraction directory is created, nothing is
\* uploaded and nothing is published
C28_PipelineOnlyAfterIngress ==
    \A r \in RequestIDs :
        /\ TurnedAwayAtIngress(r) =>
              /\ req[r].status \in IngressStatuses
              /\ Untouched(r)
              /\ \A in \in Requests, ctx \in Contexts :
                    (PassesEarlierChecks(in, ctx, authEnabled)
                        /\ ~isValidContentType(in.contentType))
                      => /\ IngressStatus(in, ctx, authEnabled) = 415
                         /\ 415 \in TurnedAway(authEnabled)
        /\ req[r].status \in IngressStatuses => TurnedAwayAtIngress(r)
        /\ req[r].token.present =>
              \E ctx \in Admitted(authEnabled) :
                  ctx.present /\ ctx.token = req[r].token.value

\* a request with a content type matching no pattern was answered 415 and
\* left nothing behind
C28_Witness ==
    \E r \in RequestIDs :
        /\ TurnedAwayAtIngress(r)
        /\ req[r].status = 415
        /\ Untouched(r)
        /\ \E in \in Requests :
              PassesEarlierChecks(in, NoAuthContext, FALSE)
                  /\ ~isValidContentType(in.contentType)

\* processUpload ran for request r on an invalid payload: an archive whose
\* manifest is valid and declares no ROS files
InvalidPayload(r) ==
    /\ req[r].extractCalls = 1
    /\ ValidManifest(req[r].parsed)
    /\ req[r].parsed.resource_optimization_files = <<>>

\* C29: a request with an invalid payload, an archive whose manifest
\* declares no ROS files, is answered with the status 400
C29_InvalidPayloadAnswered400 ==
    \A r \in RequestIDs :
        (InvalidPayload(r) /\ req[r].pc = "done") => req[r].status = 400

\* C30: when the request with an invalid payload has been answered, a
\* validation message for it has been sent to the validation topic
C30_InvalidPayloadValidationSent ==
    \A r \in RequestIDs :
        (InvalidPayload(r) /\ req[r].pc = "done") =>
            /\ req[r].validationCalls > 0
            /\ \E m \in Range(validationTopic) : m.request_id = r

(***************************************************************************)
(* Authentication                                                          *)
(***************************************************************************)

\* the request came through the handler of AuthMiddleware
Reviewable(r) == middleware = "token_review" /\ req[r].auth.answer /= ""

\* the header is "Bearer " followed by a token that is not empty
BearerHeader(header) == Len(header) > 7 /\ SubSeq(header, 1, 7) = "Bearer "

\* C31: the handler of AuthMiddleware calls the wrapped handler exactly when
\* the Authorization header is "Bearer " followed by a non-empty token and the
\* TokenReview of that token returned without error and authenticated; a
\* missing, non-Bearer or empty-token header and an unauthenticated result are
\* answered 401, an error of the TokenReview API 500, and the API is called
\* once with the token for a well-formed header and not at all otherwise.
C31_NextIffAuthenticated ==
    \A r \in RequestIDs :
        Reviewable(r) =>
            LET a == req[r].auth
                bearer == BearerHeader(a.header)
            IN  /\ a.next <=> (bearer /\ a.answer = "authenticated")
                /\ a.next <=> a.status = 0
                /\ ~bearer => a.status = 401 /\ a.reviews = <<>>
                /\ bearer => a.reviews = <<SubSeq(a.header, 8, Len(a.header))>>
                /\ bearer /\ a.answer = "error" => a.status = 500
                /\ bearer /\ a.answer = "unauthenticated" => a.status = 401
                /\ a.next => a.ctx.present /\ a.ctx.token = a.reviews[1]
                /\ ~a.next => req[r].pc = "done" /\ req[r].extractCalls = 0

\* a request with a malformed header is turned away without a review while
\* another one, authenticated, is through the wrapped handler
C31_Witness ==
    \E r, o \in RequestIDs :
        /\ Reviewable(r) /\ Reviewable(o)
        /\ req[r].auth.header = "Basic tokA" /\ req[r].auth.status = 401
        /\ req[r].auth.answer = "authenticated"
        /\ req[o].auth.next /\ req[o].extractCalls = 1

\* C32: a request reaches the wrapped handler only through the handler of
\* AuthMiddleware with a token the TokenReview authenticated; when the
\* Kubernetes configuration or client could not be obtained at startup no
\* pass-through middleware serves requests in its place.
C32_NoPassThrough ==
    \A r \in RequestIDs :
        req[r].auth.next =>
            /\ middleware = "token_review"
            /\ req[r].auth.answer = "authenticated"
            /\ req[r].auth.reviews = <<req[r].auth.ctx.token>>

\* the token the TokenReview authenticated for request r
ValidatedToken(r) == req[r].auth.reviews[1]

\* C33: behind the handler of AuthMiddleware, the b64_identity of every ROS
\* event handed to the producer is the token the TokenReview authenticated for
\* the request the event names, however the requests interleave.
C33_CredentialOfOwnRequest ==
    middleware = "token_review" =>
        \A i \in 1..Len(rosTopic) :
            LET r == rosTopic[i].request_id
            IN  /\ req[r].auth.next /\ req[r].auth.answer = "authenticated"
                /\ rosTopic[i].b64_identity = ValidatedToken(r)

\* two requests with different tokens have both had their event published
C33_Witness ==
    /\ middleware = "token_review"
    /\ Len(rosTopic) = 2
    /\ rosTopic[1].request_id /= rosTopic[2].request_id
    /\ rosTopic[1].b64_identity /= rosTopic[2].b64_identity
    /\ \A i \in 1..2 :
           rosTopic[i].b64_identity = ValidatedToken(rosTopic[i].request_id)

(***************************************************************************)
(* The response of HandleUpload                                            *)
(***************************************************************************)

\* HandleUpload has written the response of request r
Answered(r) == req[r].status /= 0

\* processUpload was called for request r and returned nil
ProcessUploadSucceeded(r) ==
    req[r].pc = "done" /\ req[r].extractCalls = 1 /\ req[r].err = ""

\* a response once written is never followed by another one, and none is
\* written before HandleUpload is through
WrittenOnce(r) ==
    /\ Answered(r) => req'[r].status = req[r].status
    /\ Answered(r)' <=> req'[r].pc = "done"

\* C34: HandleUpload writes one response per request, 202 exactly when
\* processUpload returned without error and one error status in every other
\* case.
C34_OneResponse ==
    [][\A r \in RequestIDs :
          /\ WrittenOnce(r)
          /\ req'[r].status = 202 <=> ProcessUploadSucceeded(r)'
          /\ Answered(r)' /\ req'[r].status /= 202 => req'[r].status >= 400]_vars

\* C34, amended: HandleUpload writes one response per request: 202 exactly
\* when processUpload returned without error, 200 for a test request, which
\* processUpload never sees, and one error status in every other case.
C34_OneResponseOrTest ==
    [][\A r \in RequestIDs :
          /\ WrittenOnce(r)
          /\ req'[r].status = 202 <=> ProcessUploadSucceeded(r)'
          /\ req'[r].status = 200
                => /\ req'[r].extractCalls = 0 /\ req'[r].uploadCalls = <<>>
                   /\ NothingSent(r)'
          /\ Answered(r)' /\ req'[r].status \notin {200, 202}
                => req'[r].status >= 400]_vars

\* one request was answered as a test request and one accepted after its
\* pipeline
C34_Witness ==
    \E r, o \in RequestIDs :
        /\ req[r].status = 200
        /\ req[o].status = 202 /\ ProcessUploadSucceeded(o)

(***************************************************************************)
(* The identity of an authenticated user                                   *)
(***************************************************************************)

\* the identity of request r was created from the user of its context
Identified(r) == req[r].pc = "identified" /\ ~req[r].identity.nil

\* the positions of the groups of the user made of prefix and more
GroupsWith(user, prefix, more) ==
    { i \in 1..Len(user.groups) :
        /\ Len(user.groups[i]) >= Len(prefix) + more
        /\ SubSeq(user.groups[i], 1, Len(prefix)) = prefix }

\* the rest of the first group among the positions, after n characters
SuffixOfFirst(user, positions, n) ==
    LET i == CHOOSE k \in positions : \A j \in positions : k <= j
    IN  SubSeq(user.groups[i], n + 1, Len(user.groups[i]))

\* the extra field of the user has a first value under the key
Available(user, key) == key \in DOMAIN user.extra /\ user.extra[key] /= <<>>

\* C35: the org id of the identity is the suffix of the first group
\* "org:<non-empty id>" of the user; without such a group, the first value of
\* the extra field org_id; without that too, "1".
C35_OrgIDPrecedence ==
    \A r \in Served :
        Identified(r) =>
            LET user == req[r].auth.ctx
                orgs == GroupsWith(user, "org:", 1)
            IN  req[r].identity.OrgID =
                    IF orgs /= {} THEN SuffixOfFirst(user, orgs, 4)
                    ELSE IF Available(user, "org_id") THEN user.extra["org_id"][1]
                    ELSE "1"

\* a user in the groups "org:" and "org:8" with an extra field org_id has the
\* org id 8
C35_Witness ==
    \E r \in Served :
        /\ Identified(r)
        /\ req[r].auth.ctx.groups = <<"org:", "org:8">>
        /\ Available(req[r].auth.ctx, "org_id")
        /\ req[r].identity.OrgID = "8"

\* C36: the account number of the identity is the first value of the first
\* available of the extra fields account_number, customer_id and client_id;
\* without any, the suffix of the first group with the prefix "account:";
\* without such a group, "1".
C36_AccountPrecedence ==
    \A r \in Served :
        Identified(r) =>
            LET user == req[r].auth.ctx
                accounts == GroupsWith(user, "account:", 0)
            IN  req[r].identity.AccountNumber =
                    IF Available(user, "account_number")
                    THEN user.extra["account_number"][1]
                    ELSE IF Available(user, "customer_id") THEN user.extra["customer_id"][1]
                    ELSE IF Available(user, "client_id") THEN user.extra["client_id"][1]
                    ELSE IF accounts /= {} THEN SuffixOfFirst(user, accounts, 8)
                    ELSE "1"

\* a user in the group "account:5" whose only available extra field of the
\* three is client_id has the account number of that field
C36_Witness ==
    \E r \in Served :
        /\ Identified(r)
        /\ req[r].auth.ctx.groups = <<"account:5">>
        /\ "account_number" \in DOMAIN req[r].auth.ctx.extra
        /\ ~Available(req[r].auth.ctx, "account_number")
        /\ ~Available(req[r].auth.ctx, "customer_id")
        /\ Available(req[r].auth.ctx, "client_id")
        /\ req[r].identity.AccountNumber = "first-client_id"

(***************************************************************************)
(* Success, and the step from the uploads to the publication              *)
(***************************************************************************)

\* the files identifyROSFiles selected for request r
Selected(r) == DOMAIN req[r].payload.ROSFiles

\* every selected file of request r is stored under its key and recorded
AllUploaded(r) ==
    /\ Len(req[r].objectKeys) = Cardinality(Selected(r))
    /\ \A fileName \in Selected(r) :
          /\ KeyOf(r, fileName) \in Range(req[r].objectKeys)
          /\ KeyOf(r, fileName) \in DOMAIN objects
          /\ objects[KeyOf(r, fileName)].RequestId = r

\* the ROS event of request r with all its object keys was handed to the
\* producer and its delivery report came back without error
PublishedAndAcked(r) ==
    /\ req[r].rosAcked /\ req[r].delivery = "delivered"
    /\ \E i \in 1..Len(rosTopic) :
          /\ rosTopic[i].request_id = r
          /\ rosTopic[i].object_keys = req[r].objectKeys
          /\ rosTopic[i].files = req[r].uploadedFiles

\* C37: when HandleUpload reports success for a request, every selected file
\* has been uploaded and the ROS event naming all of them has been published
\* and acknowledged without error beforehand.
C37_SuccessAfterUploadsAndAck ==
    [][\A r \in Served :
          req'[r].status = 202 /\ req[r].status /= 202
              => /\ Selected(r) /= {}
                 /\ AllUploaded(r)
                 /\ PublishedAndAcked(r)]_vars

\* a request with two selected files was answered 202
C37_Witness ==
    \E r \in Served :
        /\ req[r].status = 202
        /\ Cardinality(Selected(r)) = 2
        /\ AllUploaded(r) /\ PublishedAndAcked(r)

C39_NoSendOnClosedChannel ==
    \A r \in RequestIDs : req[r].sentOnClosed = {}

====
